---- MODULE Spec2Model ----
(***************************************************************************)
(* A model of dwas' job scheduler (src/src/dwas/_scheduler.py).            *)
(*                                                                         *)
(* Spec drives a Scheduler through its operations; ResolverSpec builds a   *)
(* Resolver from a dependency mapping and runs Resolver.order();           *)
(* PipelineSpec runs the loop of Pipeline._execute (src/src/dwas/          *)
(* _pipeline.py) with the workers of its thread pool and SIGINT,          *)
(* OutputSpec runs it with steps that write to their PipePlexer;           *)
(* BuildGraphSpec calls Pipeline._build_graph, UnknownStepsSpec and        *)
(* CyclicStepsSpec call it with steps that are not registered and with    *)
(* steps that require each other.                                          *)
(*                                                                         *)
(* The Scheduler object is one record-valued variable whose fields carry   *)
(* the names of the Python attributes.  Python sets are TLA+ sets, the     *)
(* `ready` list is a sequence, the `running` and `results` dicts are       *)
(* functions whose DOMAIN is the set of keys.                              *)
(*                                                                         *)
(* Python iterates a set in an order that depends on the hashes of its     *)
(* members (randomised per process for str) and on the history of the      *)
(* table: every `for x in some_set` is modelled as a choice among all      *)
(* orders.  A set whose size changed while it is being iterated makes the  *)
(* next step of the iteration raise RuntimeError, as CPython does.         *)
(***************************************************************************)
EXTENDS Integers, Sequences, FiniteSets, TLC

\* ------------------------------------------------------------------ bounds
\* Number of steps of the dependency graph.
NumSteps == 4
\* Largest number of keys of a mapping handed to Resolver in ResolverSpec.
MaxKeys == 3
\* Largest number of writes of the steps of a run in OutputSpec.
MaxWrites == 3
\* Largest value of the monotonic clock, in seconds, in TimedSpec.
MaxTime == 2
\* Largest time a step takes, in seconds, in ChainsSpec.
MaxDuration == 2
\* Threads that call ProcessManager.run, in ProcessSpec.
NumWorkers == 2

Steps == 1..NumSteps

\* --------------------------------------------------------------- JobResult
SUCCESS == "DONE"
FAILED == "FAILED"
BLOCKED == "BLOCKED"
CANCELLED == "CANCELLED"
SKIPPED == "SKIPPED"

\* The exceptions handed to mark_failed / mark_skipped; None is Python's None.
None == "None"
Exceptions == {"Exception"}

\* datetime.timedelta, as a number of seconds.
TimedeltaZero == 0
TimedeltaSeconds(x) == x
TimedeltaDays(x) == x * 86400

VARIABLES
    graph,      \* the step -> dependencies mapping the Resolver was built from
    scheduler,  \* the Scheduler object
    now,        \* the reading of time.monotonic(); Spec runs at one reading
    raised      \* the exception the last operation raised, or None

\* Resolver(graph).order(), in ResolverSpec.
VARIABLES
    resolver,   \* the Resolver object, None until it is constructed
    entries,    \* the local `entries` of Resolver.order
    cycle,      \* the cycle the CyclicStepDependenciesException raised carries
    pc          \* where the caller of Resolver is

resolverVars == <<resolver, entries, cycle, pc>>

resolverData == <<resolver, entries, cycle>>
schedulerVars == <<scheduler, now>>

\* Pipeline.execute, in PipelineSpec.
VARIABLES
    config,           \* the Config of the run
    sorter,           \* the graphlib.TopologicalSorter of execute
    ready,            \* the local `ready` of _execute: what is left to submit
    should_stop,      \* the flag set by stop()
    killed,           \* proc_manager.kill() was called
    futures,          \* the futures the executor created, in order
    running_futures,  \* the keys of the dict running_futures
    results,          \* the dict `results` of _execute
    summary,          \* the lists of jobs _log_summary built
    handler,          \* the handler of SIGINT: request_stop or the previous one
    interrupts,       \* the number of SIGINT received while request_stop is installed
    terminal          \* what was written to sys.stdout and sys.stderr, in order

pipelineVars ==
    <<config, sorter, ready, should_stop, killed, futures, running_futures, results,
      summary, handler, interrupts, terminal>>

\* Pipeline._build_graph, in BuildGraphSpec, UnknownStepsSpec and
\* CyclicStepsSpec.
VARIABLES
    registered,    \* Pipeline.steps: name -> requires, group or not, run_by_default
    request,       \* the arguments steps, except_steps, only_selected_steps
    built,         \* the graph _build_graph returned
    unknown        \* the steps the UnknownStepsException raised lists

buildVars == <<registered, request, built, unknown>>

\* Pipeline._compute_slowest_chains, in ChainsSpec.
VARIABLES
    chain_results,        \* the argument `results`: step -> (exception, time spent)
    total_time_per_step   \* the dict _compute_slowest_chains returned

chainVars == <<chain_results, total_time_per_step>>

\* ProcessManager, in ProcessSpec.
VARIABLES
    was_killed,    \* ProcessManager._was_killed
    processes,     \* ProcessManager.processes: the children registered
    workers        \* the threads that call run: where each is, and its child

procVars == <<was_killed, processes, workers>>

\* The variables Spec leaves alone.
otherVars == <<resolverVars, pipelineVars, buildVars, chainVars, procVars>>

vars ==
    <<graph, scheduler, now, raised, resolver, entries, cycle, pc, config, sorter,
      ready, should_stop, killed, futures, running_futures, results, summary,
      handler, interrupts, terminal, registered, request, built, unknown,
      chain_results, total_time_per_step, was_killed, processes, workers>>

\* No Pipeline is executing.
NoPipeline ==
    /\ config = None /\ sorter = None /\ ready = None /\ should_stop = None
    /\ killed = None /\ futures = None /\ running_futures = None
    /\ results = None /\ summary = None
    /\ handler = None /\ interrupts = None /\ terminal = None

\* No graph is being built.
NoBuild == registered = None /\ request = None /\ built = None /\ unknown = None

\* No chain is being computed, and there is no ProcessManager.
NoChains == chain_results = None /\ total_time_per_step = None
NoProcesses == was_killed = None /\ processes = None /\ workers = None

\* ------------------------------------------------------------------ graphs
\* The dependency mappings handed to Resolver: step i may require any set of
\* steps listed after it, which makes every mapping acyclic.
Edges == {e \in Steps \X Steps : e[2] > e[1]}
Graphs == {[s \in Steps |-> {d \in Steps : <<s, d>> \in E}] : E \in SUBSET Edges}

\* Resolver._make_dependent_graph: the transpose of the dependency graph.
MakeDependentGraph(g) == [s \in DOMAIN g |-> {t \in DOMAIN g : s \in g[t]}]

\* Transitive dependents of step s in the dependency mapping g.
RECURSIVE TransitiveDependents(_, _)
TransitiveDependents(g, s) ==
    LET direct == {t \in DOMAIN g : s \in g[t]}
    IN  direct \cup UNION {TransitiveDependents(g, t) : t \in direct}

\* ---------------------------------------------------------------- Scheduler
\* Scheduler.__init__: the steps in the order of the mapping, the ones without
\* dependencies appended to ready, the others added to waiting.
RECURSIVE InitialReady(_, _)
InitialReady(g, s) ==
    IF s \notin DOMAIN g THEN <<>>
    ELSE (IF g[s] = {} THEN <<s>> ELSE <<>>) \o InitialReady(g, s + 1)

SchedulerInit(g) ==
    [ dependencies_graph |-> g,
      dependents_graph   |-> MakeDependentGraph(g),
      stopped            |-> FALSE,
      waiting            |-> {s \in DOMAIN g : g[s] # {}},
      ready              |-> InitialReady(g, 1),
      running            |-> <<>>,
      success            |-> {},
      failed             |-> {},
      blocked            |-> {},
      cancelled          |-> {},
      skipped            |-> {},
      results            |-> <<>> ]

\* A call in progress: the scheduler and the exception raised so far.
Call(sch) == [sch |-> sch, exc |-> None]
Raise(c, e) == [c EXCEPT !.exc = e]

\* d[k] = v on a dict.
SetItem(d, k, v) == [x \in DOMAIN d \cup {k} |-> IF x = k THEN v ELSE d[x]]
\* d.pop(k) on a dict that holds k: the dict that is left.
Pop(d, k) == [x \in DOMAIN d \ {k} |-> d[x]]
\* list.remove(x) on a list that holds x once.
ListRemove(l, x) == SelectSeq(l, LAMBDA y : y # x)
SeqToSet(l) == {l[i] : i \in DOMAIN l}

Result(result, duration, exc) == [result |-> result, duration |-> duration, exc |-> exc]

\* ReadyBody with the test `if not dependencies` left out: the dependent is
\* made ready as soon as one of its dependencies completes.
ReadyBodyEager(c, step, dependent) ==
    LET sch == c.sch
        dependencies == sch.dependencies_graph[dependent]
        removed == [sch EXCEPT !.dependencies_graph[dependent] = dependencies \ {step}]
    IN  IF step \notin dependencies THEN Raise(c, "KeyError")
        ELSE IF dependent \in sch.waiting
             THEN [c EXCEPT !.sch = [removed EXCEPT !.waiting = @ \ {dependent},
                                                    !.ready = Append(@, dependent)]]
        ELSE [c EXCEPT !.sch = removed]

\* One turn of the loop of _mark_dependents_ready, for one dependent.
ReadyBody(c, step, dependent) ==
    LET sch == c.sch
        dependencies == sch.dependencies_graph[dependent]
        removed == [sch EXCEPT !.dependencies_graph[dependent] = dependencies \ {step}]
    IN  IF step \notin dependencies THEN Raise(c, "KeyError")
        ELSE IF dependencies \ {step} # {} THEN [c EXCEPT !.sch = removed]
        ELSE IF dependent \in sch.waiting
             THEN [c EXCEPT !.sch = [removed EXCEPT !.waiting = @ \ {dependent},
                                                    !.ready = Append(@, dependent)]]
        ELSE IF dependent \notin sch.cancelled
             THEN Raise([c EXCEPT !.sch = removed], "AssertionError")
        ELSE [c EXCEPT !.sch = removed]

\* _mark_dependents_ready that appends to ready every dependent left without
\* dependencies, cancelled ones included.
MarkDependentsReadyRevives(c, step) ==
    LET sch == c.sch
        done == {d \in sch.dependents_graph[step] : sch.dependencies_graph[d] = {step}}
        order == CHOOSE l \in [1..Cardinality(done) -> done] : SeqToSet(l) = done
    IN  {[c EXCEPT !.sch = [sch EXCEPT
            !.dependencies_graph = [d \in Steps |->
                IF d \in sch.dependents_graph[step] THEN @[d] \ {step} ELSE @[d]],
            !.waiting = @ \ done,
            !.ready = @ \o order]]}

\* Scheduler._mark_dependents_ready: the calls that can result, one for each
\* order in which the set of dependents can be iterated.
RECURSIVE ReadyLoop(_, _, _)
ReadyLoop(c, step, visited) ==
    LET todo == c.sch.dependents_graph[step] \ visited
    IN  IF c.exc # None \/ todo = {} THEN {c}
        ELSE UNION {ReadyLoop(ReadyBody(c, step, dependent), step,
                              visited \cup {dependent}) : dependent \in todo}

MarkDependentsReady(c, step) == ReadyLoop(c, step, {})

\* One turn of the loop of _mark_dependents_blocked, up to the recursive call.
BlockedBody(c, step, dependent) ==
    LET sch == c.sch
        moved == IF dependent \in sch.waiting
                 THEN [sch EXCEPT !.waiting = @ \ {dependent}]
                 ELSE [sch EXCEPT !.cancelled = @ \ {dependent}]
        marked == [moved EXCEPT !.blocked = @ \cup {dependent},
                                !.results = SetItem(@, dependent,
                                               Result(BLOCKED, TimedeltaZero, None))]
        dependencies == sch.dependencies_graph[dependent] \ {step}
        severed == [marked EXCEPT
                      !.dependencies_graph[dependent] = dependencies,
                      !.dependents_graph = [s \in Steps |->
                          IF s \in dependencies THEN @[s] \ {dependent} ELSE @[s]]]
    IN  IF dependent \notin sch.waiting /\ dependent \notin sch.cancelled
        THEN Raise(c, "KeyError")
        ELSE IF step \notin sch.dependencies_graph[dependent]
        THEN Raise([c EXCEPT !.sch = marked], "KeyError")
        ELSE IF \E s \in dependencies : dependent \notin sch.dependents_graph[s]
        THEN Raise([c EXCEPT !.sch = severed], "KeyError")
        ELSE [c EXCEPT !.sch = severed]

\* Scheduler._mark_dependents_blocked: the calls that can result, one for each
\* order in which the sets of dependents can be iterated.  `used` is the size
\* dependents_graph[step] had when its iteration started: the iterator raises
\* RuntimeError when it finds another size on being asked for the next member.
RECURSIVE BlockedLoop(_, _, _, _)
RECURSIVE MarkDependentsBlocked(_, _)
BlockedLoop(c, step, visited, used) ==
    LET dependents == c.sch.dependents_graph[step]
        todo == dependents \ visited
    IN  IF c.exc # None THEN {c}
        ELSE IF Cardinality(dependents) # used THEN {Raise(c, "RuntimeError")}
        ELSE IF todo = {} THEN {c}
        ELSE UNION {UNION {BlockedLoop(after, step, visited \cup {dependent}, used)
                           : after \in MarkDependentsBlocked(
                                 BlockedBody(c, step, dependent), dependent)}
                    : dependent \in todo}

\* _mark_dependents_blocked without its recursive call: only the direct
\* dependents of the failed step are blocked.
RECURSIVE DirectLoop(_, _, _)
DirectLoop(c, step, todo) ==
    IF c.exc # None \/ todo = {} THEN c
    ELSE LET dependent == CHOOSE d \in todo : TRUE
         IN  DirectLoop(BlockedBody(c, step, dependent), step, todo \ {dependent})

MarkDependentsBlockedDirectOnly(c, step) ==
    {DirectLoop(c, step, c.sch.dependents_graph[step])}

MarkDependentsBlocked(c, step) ==
    IF c.exc # None THEN {c}
    ELSE BlockedLoop(c, step, {}, Cardinality(c.sch.dependents_graph[step]))

\* mark_started without `self.ready.remove(step)`.
SchedMarkStartedKeepsReady(sch, step, t) ==
    [sch EXCEPT !.running = SetItem(@, step, t)]

\* Scheduler.mark_started, for a step of ready on a scheduler not stopped.
SchedMarkStarted(sch, step, t) ==
    [sch EXCEPT !.ready = ListRemove(@, step),
                !.running = SetItem(@, step, t)]

\* Scheduler.mark_failed.
SchedMarkFailed(sch, step, exc, t) ==
    LET time_taken == sch.running[step]
    IN  MarkDependentsBlocked(
            Call([sch EXCEPT !.running = Pop(@, step),
                             !.failed = @ \cup {step},
                             !.results = SetItem(@, step,
                                 Result(FAILED, TimedeltaSeconds(t - time_taken), exc))]),
            step)

\* mark_success without the call of _mark_dependents_ready.
SchedMarkSuccessNoNotify(sch, step, t) ==
    {Call([sch EXCEPT !.running = Pop(@, step),
                      !.success = @ \cup {step},
                      !.results = SetItem(@, step,
                          Result(SUCCESS, TimedeltaSeconds(t - sch.running[step]), None))])}

\* Scheduler.mark_success.
SchedMarkSuccess(sch, step, t) ==
    LET time_taken == sch.running[step]
    IN  MarkDependentsReady(
            Call([sch EXCEPT !.running = Pop(@, step),
                             !.success = @ \cup {step},
                             !.results = SetItem(@, step,
                                 Result(SUCCESS, TimedeltaSeconds(t - time_taken), None))]),
            step)

\* mark_skipped handling the skip as a failure: the dependents are blocked.
SchedMarkSkippedBlocks(sch, step, exc, t) ==
    MarkDependentsBlocked(
        Call([sch EXCEPT !.running = Pop(@, step),
                         !.skipped = @ \cup {step},
                         !.results = SetItem(@, step,
                             Result(FAILED, TimedeltaDays(t - sch.running[step]), exc))]),
        step)

\* Scheduler.mark_skipped.
SchedMarkSkipped(sch, step, exc, t) ==
    LET time_taken == sch.running[step]
    IN  MarkDependentsReady(
            Call([sch EXCEPT !.running = Pop(@, step),
                             !.skipped = @ \cup {step},
                             !.results = SetItem(@, step,
                                 Result(FAILED, TimedeltaDays(t - time_taken), exc))]),
            step)

\* stop without its second loop: waiting is not drained.
SchedStopReadyOnly(sch) ==
    LET drained == SeqToSet(sch.ready)
    IN  [sch EXCEPT
           !.stopped = TRUE,
           !.ready = <<>>,
           !.cancelled = @ \cup drained,
           !.results = [s \in DOMAIN @ \cup drained |->
                           IF s \in drained
                           THEN Result(CANCELLED, TimedeltaZero, None)
                           ELSE @[s]]]

\* stop that also cancels the running steps.
SchedStopCancelsRunning(sch) ==
    LET drained == SeqToSet(sch.ready) \cup sch.waiting \cup DOMAIN sch.running
    IN  [sch EXCEPT
           !.stopped = TRUE,
           !.ready = <<>>,
           !.waiting = {},
           !.running = [x \in {} |-> 0],
           !.cancelled = @ \cup drained,
           !.results = [s \in DOMAIN @ \cup drained |->
                           IF s \in drained
                           THEN Result(CANCELLED, TimedeltaZero, None)
                           ELSE @[s]]]

\* stop that records no result for the steps it cancels.
SchedStopRecordsNothing(sch) ==
    [sch EXCEPT
       !.stopped = TRUE,
       !.ready = <<>>,
       !.waiting = {},
       !.cancelled = @ \cup SeqToSet(sch.ready) \cup sch.waiting]

\* Scheduler.stop: ready, then waiting, drained into cancelled.
SchedStop(sch) ==
    LET drained == SeqToSet(sch.ready) \cup sch.waiting
    IN  [sch EXCEPT
           !.stopped = TRUE,
           !.ready = <<>>,
           !.waiting = {},
           !.cancelled = @ \cup drained,
           !.results = [s \in DOMAIN @ \cup drained |->
                           IF s \in drained
                           THEN Result(CANCELLED, TimedeltaZero, None)
                           ELSE @[s]]]

\* Scheduler.__bool__.
SchedBool(sch) == sch.ready # <<>> \/ DOMAIN sch.running # {}

\* ------------------------------------------------------------------ actions
Init ==
    /\ graph \in Graphs
    /\ scheduler = SchedulerInit(graph)
    /\ now = 0
    /\ raised = None
    /\ resolver = None /\ entries = <<>> /\ cycle = <<>> /\ pc = "scheduler"
    /\ NoPipeline /\ NoBuild /\ NoChains /\ NoProcesses

MarkStarted(step) ==
    /\ raised = None
    /\ ~scheduler.stopped
    /\ step \in SeqToSet(scheduler.ready)
    /\ scheduler' = SchedMarkStarted(scheduler, step, now)
    /\ UNCHANGED <<graph, now, raised, otherVars>>

MarkFailed(step, exc) ==
    /\ raised = None
    /\ step \in DOMAIN scheduler.running
    /\ \E c \in SchedMarkFailed(scheduler, step, exc, now) :
          /\ scheduler' = c.sch
          /\ raised' = c.exc
    /\ UNCHANGED <<graph, now, otherVars>>

MarkSuccess(step) ==
    /\ raised = None
    /\ step \in DOMAIN scheduler.running
    /\ \E c \in SchedMarkSuccess(scheduler, step, now) :
          /\ scheduler' = c.sch
          /\ raised' = c.exc
    /\ UNCHANGED <<graph, now, otherVars>>

MarkSkipped(step, exc) ==
    /\ raised = None
    /\ step \in DOMAIN scheduler.running
    /\ \E c \in SchedMarkSkipped(scheduler, step, exc, now) :
          /\ scheduler' = c.sch
          /\ raised' = c.exc
    /\ UNCHANGED <<graph, now, otherVars>>

Stop ==
    /\ raised = None
    /\ scheduler' = SchedStop(scheduler)
    /\ UNCHANGED <<graph, now, raised, otherVars>>

Next ==
    \/ \E step \in Steps : MarkStarted(step)
    \/ \E step \in Steps, exc \in Exceptions : MarkFailed(step, exc)
    \/ \E step \in Steps : MarkSuccess(step)
    \/ \E step \in Steps, exc \in Exceptions : MarkSkipped(step, exc)
    \/ Stop

Spec == Init /\ [][Next]_vars

\* The Scheduler with a clock that advances: time.monotonic() returns one
\* second more.  The runs start from the graphs with at most one requirement.
InitTimed ==
    /\ Init
    /\ Cardinality({e \in Edges : e[2] \in graph[e[1]]}) <= 1

Tick ==
    /\ now < MaxTime
    /\ now' = now + 1
    /\ UNCHANGED <<graph, scheduler, raised, otherVars>>

NextTimed ==
    \/ Next
    \/ Tick

TimedSpec == InitTimed /\ [][NextTimed]_vars

\* ----------------------------------------------------------------- Resolver
\* The mappings handed to Resolver in ResolverSpec: the keys 1..k in the order
\* of the dict, each with any set of keys as its dependencies, cyclic mappings
\* included.
ResolverGraphs == UNION {[1..k -> SUBSET (1..k)] : k \in 1..MaxKeys}

\* The steps that step s of the mapping g requires, directly or not.
RECURSIVE Closure(_, _)
Closure(g, S) ==
    LET T == S \cup UNION {g[s] : s \in S}
    IN  IF T = S THEN S ELSE Closure(g, T)
AllRequirements(g, s) == Closure(g, g[s])
HasCycle(g) == \E s \in DOMAIN g : s \in AllRequirements(g, s)

\* The mappings of ResolverGraphs without cycle.
AcyclicGraphs == {g \in ResolverGraphs : ~HasCycle(g)}

\* The state of one run of Resolver._build_weights: the dict `weights`, the
\* deque `path` (leftmost first), the set `path_set`, the exception raised so
\* far with the cycle it carries, and the value the last call of
\* _compute_weight returned.
BuildWeightsInit ==
    [weights |-> <<>>, path |-> <<>>, path_set |-> {}, exc |-> None,
     cycle |-> <<>>, ret |-> <<>>]

RECURSIVE ComputeWeight(_, _, _)
RECURSIVE SumWeights(_, _, _, _)

\* _compute_weight storing a weight for the step before it visits the
\* dependents: a step met again is found in `weights`, never in path_set.
ComputeWeightMemoFirst(st, dependents, step) ==
    IF step \in DOMAIN st.weights THEN {[st EXCEPT !.ret = st.weights[step]]}
    ELSE LET direct_dependents == dependents[step]
             entered == [st EXCEPT
                           !.weights = SetItem(@, step,
                                               <<0, Cardinality(direct_dependents), step>>)]
         IN  {LET weight == <<r.ret, Cardinality(direct_dependents), step>>
              IN  [r EXCEPT !.weights = SetItem(@, step, weight), !.ret = weight]
              : r \in SumWeights(entered, dependents, direct_dependents, 0)}

\* Resolver._build_weights._compute_weight(step), and the generator handed to
\* sum() in it: the states that can result, one for each order in which the
\* set of direct dependents can be iterated.
ComputeWeight(st, dependents, step) ==
    IF step \in DOMAIN st.weights THEN {[st EXCEPT !.ret = st.weights[step]]}
    ELSE LET pushed == [st EXCEPT !.path = <<step>> \o @]
             entered == [pushed EXCEPT !.path_set = @ \cup {step}]
             direct_dependents == dependents[step]
         IN  IF step \in st.path_set
             THEN {[pushed EXCEPT !.exc = "CyclicStepDependenciesException",
                                  !.cycle = pushed.path]}
             ELSE {IF r.exc # None THEN r
                   ELSE LET weight == <<r.ret, Cardinality(direct_dependents), step>>
                        IN  [r EXCEPT !.weights = SetItem(@, step, weight),
                                      !.path = Tail(@),
                                      !.path_set = @ \ {step},
                                      !.ret = weight]
                   : r \in SumWeights(entered, dependents, direct_dependents, 0)}

SumWeights(st, dependents, todo, acc) ==
    IF todo = {} THEN {[st EXCEPT !.ret = acc]}
    ELSE UNION {UNION {IF r.exc # None THEN {r}
                       ELSE SumWeights(r, dependents, todo \ {dep}, acc + r.ret[1])
                       : r \in ComputeWeight(st, dependents, dep)}
                : dep \in todo}

\* The loop `for step in self._dependents_graph` of _build_weights, from the
\* key `step` on.
RECURSIVE BuildWeightsLoop(_, _, _)
BuildWeightsLoop(st, dependents, step) ==
    IF st.exc # None \/ step \notin DOMAIN dependents THEN {st}
    ELSE UNION {BuildWeightsLoop(r, dependents, step + 1)
                : r \in ComputeWeight(st, dependents, step)}

\* Resolver._build_weights.
BuildWeights(dependents) == BuildWeightsLoop(BuildWeightsInit, dependents, 1)

\* Resolver.__init__: the Resolver objects that can result, each with the
\* exception the constructor raised.
ResolverInit(g) ==
    LET dependents == MakeDependentGraph(g)
    IN  {[dependencies_graph |-> g,
          dependents_graph   |-> dependents,
          weights            |-> st.weights,
          exc                |-> st.exc,
          cycle              |-> st.cycle] : st \in BuildWeights(dependents)}

\* get_scheduler handing out a Scheduler that puts every step in ready.
GetSchedulerAllReady(r) ==
    [SchedulerInit(r.dependencies_graph) EXCEPT
        !.waiting = {},
        !.ready = [i \in DOMAIN r.dependencies_graph |-> i]]

\* Resolver.get_scheduler.
GetScheduler(r) == SchedulerInit(r.dependencies_graph)

\* The variables `resolver` and `scheduler` before an object is bound to them:
\* objects of the empty mapping.
NoResolver == [dependencies_graph |-> <<>>, dependents_graph |-> <<>>, weights |-> <<>>]
NoScheduler == SchedulerInit(<<>>)

InitResolver ==
    /\ graph \in ResolverGraphs
    /\ scheduler = NoScheduler
    /\ now = 0
    /\ raised = None
    /\ resolver = NoResolver
    /\ entries = <<>>
    /\ cycle = <<>>
    /\ pc = "new"
    /\ NoPipeline /\ NoBuild /\ NoChains /\ NoProcesses

\* Resolver(graph).
NewResolver ==
    /\ pc = "new"
    /\ \E r \in ResolverInit(graph) :
          IF r.exc # None
          THEN /\ raised' = r.exc
               /\ cycle' = r.cycle
               /\ pc' = "raised"
               /\ UNCHANGED resolver
          ELSE /\ resolver' = [dependencies_graph |-> r.dependencies_graph,
                               dependents_graph   |-> r.dependents_graph,
                               weights            |-> r.weights]
               /\ pc' = "built"
               /\ UNCHANGED <<raised, cycle>>
    /\ UNCHANGED <<graph, scheduler, now, entries, pipelineVars, buildVars, chainVars, procVars>>

\* Resolver.order, up to the first test of its loop.
OrderCalled ==
    /\ pc = "built"
    /\ entries' = <<>>
    /\ scheduler' = GetScheduler(resolver)
    /\ pc' = "order"
    /\ UNCHANGED <<graph, now, raised, resolver, cycle, pipelineVars, buildVars, chainVars, procVars>>

\* One turn of the loop of Resolver.order.
OrderLoop ==
    /\ pc = "order"
    /\ SchedBool(scheduler)
    /\ IF scheduler.ready = <<>>
       THEN /\ raised' = "StopIteration"
            /\ pc' = "raised"
            /\ UNCHANGED <<scheduler, entries>>
       ELSE LET next_step == Head(scheduler.ready)
            IN  /\ entries' = Append(entries, next_step)
                /\ \E c \in SchedMarkSuccess(
                               SchedMarkStarted(scheduler, next_step, now), next_step, now) :
                      /\ scheduler' = c.sch
                      /\ raised' = c.exc
                      /\ pc' = IF c.exc # None THEN "raised" ELSE "order"
    /\ UNCHANGED <<graph, now, resolver, cycle, pipelineVars, buildVars, chainVars, procVars>>

\* The loop of Resolver.order is left and entries is returned.
OrderReturn ==
    /\ pc = "order"
    /\ ~SchedBool(scheduler)
    /\ pc' = "returned"
    /\ UNCHANGED <<graph, scheduler, now, raised, resolver, entries, cycle, pipelineVars, buildVars, chainVars, procVars>>

NextResolver ==
    \/ NewResolver
    \/ OrderCalled
    \/ OrderLoop
    \/ OrderReturn

ResolverSpec == InitResolver /\ [][NextResolver]_vars

\* Resolver(graph).order() on the mappings without cycle, the caller taking
\* every step in time: order() has no wait in it, its loop runs to its end.
InitOrder ==
    /\ InitResolver
    /\ graph \in AcyclicGraphs

OrderSpec == InitOrder /\ [][NextResolver]_vars /\ WF_vars(NextResolver)

\* ----------------------------------------------------------------- Pipeline
\* What a step's body does when it is run: it returns, it raises
\* UnavailableInterpreterException, or it raises another exception.
Outcomes == {"None", "UnavailableInterpreterException", "Exception"}

\* What it can do besides once the child processes were killed: raise the
\* KeyboardInterrupt of ProcessManager.run.
BodyOutcomes == Outcomes \cup {"KeyboardInterrupt"}

\* The Config of a run: n_jobs, fail_fast, skip_missing_interpreters.
JobCounts == {1, 2}
Configs ==
    [n_jobs : JobCounts, fail_fast : BOOLEAN, skip_missing_interpreters : BOOLEAN]

\* The graphs _build_graph hands to _execute in PipelineSpec: MaxKeys keys,
\* each requiring any set of the keys listed after it, as _build_graph lists
\* a step before the requirements it discovers through it.
PipelineGraphs ==
    {g \in [1..MaxKeys -> SUBSET (1..MaxKeys)] : \A s \in DOMAIN g : \A d \in g[s] : d > s}

\* The members of a set, as the list a `requires` holds them.
RECURSIVE Sorted(_)
Sorted(S) ==
    IF S = {} THEN <<>>
    ELSE LET m == CHOOSE x \in S : \A y \in S : x <= y
         IN  <<m>> \o Sorted(S \ {m})

\* graphlib's marks of a node passed out by get_ready and of a node done.
NODE_OUT == -1
NODE_DONE == -2

\* graphlib.TopologicalSorter(graph): add(node, *predecessors) for every item
\* of the dict, in its order.  `nodes` is the order of the keys of _node2info.
RECURSIVE SorterNodes(_, _, _)
SorterNodes(g, node, nodes) ==
    IF node \notin DOMAIN g THEN nodes
    ELSE SorterNodes(g, node + 1,
             nodes \o SelectSeq(<<node>> \o Sorted(g[node]),
                                LAMBDA x : x \notin SeqToSet(nodes)))

TopologicalSorter(g) ==
    [ nodes         |-> SorterNodes(g, 1, <<>>),
      npredecessors |-> [n \in DOMAIN g |-> Cardinality(g[n])],
      successors    |-> [n \in DOMAIN g |-> Sorted({s \in DOMAIN g : n \in g[s]})],
      ready_nodes   |-> <<>>,
      npassedout    |-> 0,
      nfinished     |-> 0 ]

\* TopologicalSorter.prepare, on a graph without cycle.
SorterPrepare(ts) ==
    [ts EXCEPT !.ready_nodes = SelectSeq(ts.nodes, LAMBDA n : ts.npredecessors[n] = 0)]

\* TopologicalSorter.is_active.
SorterIsActive(ts) == ts.nfinished < ts.npassedout \/ ts.ready_nodes # <<>>

\* TopologicalSorter.get_ready: the sorter that is left; the tuple returned is
\* ts.ready_nodes.
SorterGetReady(ts) ==
    [ts EXCEPT !.npredecessors = [n \in DOMAIN @ |->
                                     IF n \in SeqToSet(ts.ready_nodes) THEN NODE_OUT ELSE @[n]],
               !.ready_nodes = <<>>,
               !.npassedout = @ + Len(ts.ready_nodes)]

\* The loop over the successors in TopologicalSorter.done.
RECURSIVE SorterRelease(_, _)
SorterRelease(ts, successors) ==
    IF successors = <<>> THEN ts
    ELSE LET successor == Head(successors)
             left == ts.npredecessors[successor] - 1
         IN  SorterRelease(
                 [ts EXCEPT !.npredecessors[successor] = left,
                            !.ready_nodes = IF left = 0 THEN Append(@, successor) ELSE @],
                 Tail(successors))

\* done that releases the successors without counting their predecessors.
SorterDoneReleasesAll(ts, node) ==
    [ts EXCEPT !.npredecessors = [n \in DOMAIN @ |->
                                     IF n = node THEN NODE_DONE
                                     ELSE IF n \in SeqToSet(ts.successors[node]) THEN 0
                                     ELSE @[n]],
               !.ready_nodes = @ \o ts.successors[node],
               !.nfinished = @ + 1]

\* TopologicalSorter.done(node), for a node that was passed out.
SorterDone(ts, node) ==
    LET released == SorterRelease([ts EXCEPT !.npredecessors[node] = NODE_DONE],
                                  ts.successors[node])
    IN  [released EXCEPT !.nfinished = @ + 1]

\* TopologicalSorter.static_order, from a prepared sorter on.
RECURSIVE SorterDoneAll(_, _)
SorterDoneAll(ts, nodes) ==
    IF nodes = <<>> THEN ts ELSE SorterDoneAll(SorterDone(ts, Head(nodes)), Tail(nodes))

RECURSIVE StaticOrderFrom(_)
StaticOrderFrom(ts) ==
    IF ~SorterIsActive(ts) THEN <<>>
    ELSE LET node_group == ts.ready_nodes
         IN  node_group \o StaticOrderFrom(SorterDoneAll(SorterGetReady(ts), node_group))

StaticOrder(g) == StaticOrderFrom(SorterPrepare(TopologicalSorter(g)))

\* concurrent.futures.Future and the PipePlexer submitted with it: the step it
\* runs, its state and, once FINISHED, what the step's body did; the number of
\* writes of the step so far and the buffer of its PipePlexer.
Future(name) ==
    [name |-> name, state |-> "PENDING", outcome |-> None, written |-> 0,
     buffer |-> <<>>]

\* cancel() that also cancels a future whose step is running.
CancelAllRunning(fs, keys) ==
    [f \in DOMAIN fs |->
        IF f \in keys /\ fs[f].state \in {"PENDING", "RUNNING"}
        THEN [fs[f] EXCEPT !.state = "CANCELLED"]
        ELSE fs[f]]

\* Future.cancel on every future of running_futures: only a future no worker
\* has picked up is cancelled.
CancelAll(fs, keys) ==
    [f \in DOMAIN fs |->
        IF f \in keys /\ fs[f].state = "PENDING"
        THEN [fs[f] EXCEPT !.state = "CANCELLED"]
        ELSE fs[f]]

\* The keys of running_futures that futures.as_completed can yield first.
CompletedFutures == {f \in running_futures : futures[f].state \in {"FINISHED", "CANCELLED"}}

\* Every exception is tolerated.
ToleratedAlways(outcome) == outcome # "None"

\* No exception is tolerated.
ToleratedNever(outcome) == FALSE

\* A step whose exception is tolerated: sorter.done is called for it.
Tolerated(outcome) ==
    outcome = "UnavailableInterpreterException" /\ config.skip_missing_interpreters

\* No step gets a PipePlexer.
CapturedNever(n_jobs) == FALSE

\* A step submitted gets a PipePlexer, and its output is captured, unless
\* n_jobs is 1.
Captured(n_jobs) == n_jobs # 1

\* PipePlexer.dump(sys.stdout, sys.stderr): what is written to the two
\* streams, in order.
RECURSIVE Dump(_)
Dump(buffer) ==
    IF buffer = <<>> THEN <<>>
    ELSE LET entry == Head(buffer)
         IN  <<[target |-> IF entry.stream = "stdout" THEN "sys.stdout" ELSE "sys.stderr",
                name   |-> entry.name,
                n      |-> entry.n]>> \o Dump(Tail(buffer))

\* The loop of _log_summary from the rest `order` of the static order on.
RECURSIVE LogSummaryLoop(_, _, _, _)
LogSummaryLoop(g, res, order, jobs) ==
    IF order = <<>> THEN jobs
    ELSE LET name == Head(order)
             next ==
                IF name \in DOMAIN res
                THEN IF res[name] = "None" THEN jobs
                     ELSE IF Tolerated(res[name])
                     THEN [jobs EXCEPT !.skipped = Append(@, name)]
                     ELSE IF res[name] = "CancelledError"
                     THEN [jobs EXCEPT !.cancelled = Append(@, name)]
                     ELSE [jobs EXCEPT !.failed = Append(@, name)]
                ELSE IF jobs.cancelled # <<>>
                THEN [jobs EXCEPT !.cancelled = Append(@, name)]
                ELSE [jobs EXCEPT !.blocked = Append(@, name)]
         IN  LogSummaryLoop(g, res, Tail(order), next)

\* failed_jobs, blocked_jobs and cancelled_jobs, and the steps logged as
\* skipped.
NoJobs == [failed |-> <<>>, blocked |-> <<>>, cancelled |-> <<>>, skipped |-> <<>>]

\* _display_slowest_dependency_chain raises KeyError: the graph has more than
\* one step and no chain took more than timedelta(), so that
\* total_slowest_step is still "".  A step that ran took more than that, a
\* cancelled one is recorded with timedelta().
SlowestChainRaises(g, res) ==
    /\ Cardinality(DOMAIN g) > 1
    /\ \A name \in DOMAIN res : res[name] = "CancelledError"

\* The state at the start of Pipeline._execute: the sorter prepared, nothing
\* submitted, the SIGINT handler installed.
InitPipeline ==
    /\ graph \in PipelineGraphs
    /\ config \in Configs
    /\ sorter = SorterPrepare(TopologicalSorter(graph))
    /\ ready = <<>>
    /\ should_stop = FALSE
    /\ killed = FALSE
    /\ futures = <<>>
    /\ running_futures = {}
    /\ results = <<>>
    /\ summary = NoJobs
    /\ handler = "request_stop"
    /\ interrupts = 0
    /\ terminal = <<>>
    /\ pc = "loop"
    /\ raised = None
    /\ scheduler = NoScheduler /\ now = 0
    /\ resolver = NoResolver /\ entries = <<>> /\ cycle = <<>>
    /\ NoBuild /\ NoChains /\ NoProcesses

\* `while sorter.is_active()` is false: _execute returns, and execute restores
\* the previous handler of SIGINT.
LoopExit ==
    /\ pc = "loop"
    /\ ~SorterIsActive(sorter)
    /\ pc' = "summary"
    /\ handler' = "previous"
    /\ UNCHANGED <<graph, config, sorter, ready, should_stop, killed, futures,
                   running_futures, results, summary, raised, interrupts, terminal,
                   schedulerVars, resolverData, buildVars, chainVars, procVars>>

\* The head of a turn of the loop: get_ready, the break when nothing is ready
\* and nothing runs (_execute returns, the handler is restored), the test of
\* should_stop.
GetReady ==
    /\ pc = "loop"
    /\ SorterIsActive(sorter)
    /\ sorter' = SorterGetReady(sorter)
    /\ ready' = sorter.ready_nodes
    /\ pc' = IF sorter.ready_nodes = <<>>
             THEN (IF running_futures = {} THEN "summary" ELSE "wait")
             ELSE (IF should_stop THEN "loop" ELSE "submit")
    /\ handler' = IF sorter.ready_nodes = <<>> /\ running_futures = {}
                  THEN "previous" ELSE handler
    /\ UNCHANGED <<graph, config, should_stop, killed, futures, running_futures,
                   results, summary, raised, interrupts, terminal,
                   schedulerVars, resolverData, buildVars, chainVars, procVars>>

\* One turn of `for name in ready`, up to the return of executor.submit.
Submit ==
    /\ pc = "submit"
    /\ futures' = Append(futures, Future(Head(ready)))
    /\ pc' = "record"
    /\ UNCHANGED <<graph, config, sorter, ready, should_stop, killed, running_futures,
                   results, summary, raised, handler, interrupts, terminal,
                   schedulerVars, resolverData, buildVars, chainVars, procVars>>

\* The end of the turn: the future just created is stored in running_futures.
Record ==
    /\ pc = "record"
    /\ running_futures' = running_futures \cup {Len(futures)}
    /\ ready' = Tail(ready)
    /\ pc' = IF Tail(ready) = <<>> THEN "loop" ELSE "submit"
    /\ UNCHANGED <<graph, config, sorter, should_stop, killed, futures, results,
                   summary, raised, handler, interrupts, terminal,
                   schedulerVars, resolverData, buildVars, chainVars, procVars>>

\* next(futures.as_completed(...)) yields next_finished: its PipePlexer is
\* dumped and its result is handled.  A KeyboardInterrupt raised in the step
\* is raised again by result() and caught by nothing: it leaves the loop.
Completed(next_finished) ==
    /\ pc = "wait"
    /\ next_finished \in CompletedFutures
    /\ LET name == futures[next_finished].name
           outcome == futures[next_finished].outcome
           cancelled == futures[next_finished].state = "CANCELLED"
           interrupted == ~cancelled /\ outcome = "KeyboardInterrupt"
           failure == ~cancelled /\ ~interrupted /\ outcome # "None" /\ ~Tolerated(outcome)
       IN  /\ running_futures' = running_futures \ {next_finished}
           /\ terminal' = terminal \o Dump(futures[next_finished].buffer)
           /\ results' = IF interrupted THEN results
                         ELSE SetItem(results, name,
                                      IF cancelled THEN "CancelledError" ELSE outcome)
           /\ sorter' = IF cancelled \/ interrupted \/ failure THEN sorter
                        ELSE SorterDone(sorter, name)
           /\ IF failure /\ config.fail_fast
              THEN /\ should_stop' = TRUE
                   /\ futures' = CancelAll(futures, running_futures')
              ELSE UNCHANGED <<should_stop, futures>>
           /\ pc' = IF interrupted THEN "unwind" ELSE "loop"
    /\ UNCHANGED <<graph, config, ready, killed, summary, raised, handler, interrupts,
                   schedulerVars, resolverData, buildVars, chainVars, procVars>>

\* The exception leaves the `with` block of _execute: the executor is shut
\* down once its workers have nothing left to run, execute restores the
\* previous handler of SIGINT and the exception reaches the caller.
ExecutorShutdown ==
    /\ pc = "unwind"
    /\ \A f \in DOMAIN futures : futures[f].state \notin {"PENDING", "RUNNING"}
    /\ pc' = "raised"
    /\ raised' = "KeyboardInterrupt"
    /\ handler' = "previous"
    /\ UNCHANGED <<graph, config, sorter, ready, should_stop, killed, futures,
                   running_futures, results, summary, interrupts, terminal,
                   schedulerVars, resolverData, buildVars, chainVars, procVars>>

\* A worker of the ThreadPoolExecutor picks up the step submitted first among
\* those that wait in its queue.
StepStartsUnbounded(f) ==
    /\ f \in DOMAIN futures
    /\ futures[f].state = "PENDING"
    /\ \A e \in 1..(f - 1) : futures[e].state # "PENDING"
    /\ futures' = [futures EXCEPT ![f].state = "RUNNING"]
    /\ UNCHANGED <<graph, config, sorter, ready, should_stop, killed, running_futures,
                   results, summary, pc, raised, handler, interrupts, terminal,
                   schedulerVars, resolverData, buildVars, chainVars, procVars>>

\* A worker of the ThreadPoolExecutor(n_jobs) picks up the step submitted
\* first among those that wait in its queue.
StepStarts(f) ==
    /\ f \in DOMAIN futures
    /\ futures[f].state = "PENDING"
    /\ \A e \in 1..(f - 1) : futures[e].state # "PENDING"
    /\ Cardinality({r \in DOMAIN futures : futures[r].state = "RUNNING"}) < config.n_jobs
    /\ futures' = [futures EXCEPT ![f].state = "RUNNING"]
    /\ UNCHANGED <<graph, config, sorter, ready, should_stop, killed, running_futures,
                   results, summary, pc, raised, handler, interrupts, terminal,
                   schedulerVars, resolverData, buildVars, chainVars, procVars>>

\* The number of writes of the steps submitted so far.
RECURSIVE Written(_)
Written(fs) ==
    IF fs = <<>> THEN 0 ELSE Head(fs).written + Written(Tail(fs))

\* The step writes through its logger or a subprocess: to its PipePlexer, or
\* to sys.stdout and sys.stderr when it has none.  What is written is named
\* by the step and by its rank n among the writes of the step.
StepWrites(f, stream) ==
    /\ f \in DOMAIN futures
    /\ futures[f].state = "RUNNING"
    /\ Written(futures) < MaxWrites
    /\ LET n == futures[f].written + 1
           name == futures[f].name
       IN  IF Captured(config.n_jobs)
           THEN /\ futures' = [futures EXCEPT ![f].written = @ + 1,
                                  ![f].buffer = Append(@, [stream |-> stream,
                                                           name |-> name, n |-> n])]
                /\ UNCHANGED terminal
           ELSE /\ futures' = [futures EXCEPT ![f].written = @ + 1]
                /\ terminal' = Append(terminal,
                                      [target |-> IF stream = "stdout" THEN "sys.stdout"
                                                  ELSE "sys.stderr",
                                       name |-> name, n |-> n])
    /\ UNCHANGED <<graph, config, sorter, ready, should_stop, killed, running_futures,
                   results, summary, pc, raised, handler, interrupts,
                   schedulerVars, resolverData, buildVars, chainVars, procVars>>

\* _run_step returns or raises in its worker.  Once proc_manager.kill() was
\* called, ProcessManager.run raises KeyboardInterrupt, which _run_step does
\* not catch.
StepFinishes(f, outcome) ==
    /\ f \in DOMAIN futures
    /\ futures[f].state = "RUNNING"
    /\ outcome = "KeyboardInterrupt" => killed
    /\ futures' = [futures EXCEPT ![f].state = "FINISHED", ![f].outcome = outcome]
    /\ UNCHANGED <<graph, config, sorter, ready, should_stop, killed, running_futures,
                   results, summary, pc, raised, handler, interrupts, terminal,
                   schedulerVars, resolverData, buildVars, chainVars, procVars>>

\* SIGINT while the handler request_stop is installed: stop() the first time,
\* proc_manager.kill() once should_stop is set.
RequestStop ==
    /\ handler = "request_stop"
    /\ ~killed
    /\ interrupts' = interrupts + 1
    /\ IF ~should_stop
       THEN /\ should_stop' = TRUE
            /\ futures' = CancelAll(futures, running_futures)
            /\ UNCHANGED killed
       ELSE /\ killed' = TRUE
            /\ UNCHANGED <<should_stop, futures>>
    /\ UNCHANGED <<graph, config, sorter, ready, running_futures, results, summary,
                   pc, raised, handler, terminal, schedulerVars, resolverData, buildVars, chainVars, procVars>>

\* Pipeline._log_summary: the lists of jobs, the KeyError of
\* _display_slowest_dependency_chain, and the exception when a job failed.
LogSummary ==
    /\ pc = "summary"
    /\ LET jobs == LogSummaryLoop(graph, results, StaticOrder(graph), NoJobs)
       IN  /\ summary' = jobs
           /\ raised' = IF SlowestChainRaises(graph, results) THEN "KeyError"
                        ELSE IF jobs.failed # <<>> THEN "FailedPipelineException"
                        ELSE None
           /\ pc' = IF SlowestChainRaises(graph, results) \/ jobs.failed # <<>>
                    THEN "raised" ELSE "returned"
    /\ UNCHANGED <<graph, config, sorter, ready, should_stop, killed, futures,
                   running_futures, results, handler, interrupts, terminal,
                   schedulerVars, resolverData, buildVars, chainVars, procVars>>

NextPipeline ==
    \/ LoopExit
    \/ GetReady
    \/ Submit
    \/ Record
    \/ \E f \in DOMAIN futures : Completed(f)
    \/ ExecutorShutdown
    \/ \E f \in DOMAIN futures : StepStarts(f)
    \/ \E f \in DOMAIN futures, outcome \in BodyOutcomes : StepFinishes(f, outcome)
    \/ RequestStop
    \/ LogSummary

PipelineSpec == InitPipeline /\ [][NextPipeline]_vars

\* Pipeline.execute without fail_fast and without SIGINT.  The main thread and
\* the workers keep running and every step's body ends: while _execute has a
\* step it can take, one is taken in time.
InitNoFailFast ==
    /\ InitPipeline
    /\ ~config.fail_fast

NextExecute ==
    \/ LoopExit
    \/ GetReady
    \/ Submit
    \/ Record
    \/ \E f \in DOMAIN futures : Completed(f)
    \/ \E f \in DOMAIN futures : StepStarts(f)
    \/ \E f \in DOMAIN futures, outcome \in Outcomes : StepFinishes(f, outcome)

NextUninterrupted ==
    \/ NextExecute
    \/ LogSummary

ContainmentSpec ==
    InitNoFailFast /\ [][NextUninterrupted]_vars /\ WF_vars(NextExecute)

\* Pipeline.execute with fail_fast and SIGINT.  The main thread and the
\* workers keep running and every step's body ends; a SIGINT may never come.
NextSteps ==
    \/ NextExecute
    \/ \E f \in DOMAIN futures : StepFinishes(f, "KeyboardInterrupt")

FairPipelineSpec == InitPipeline /\ [][NextPipeline]_vars /\ WF_vars(NextSteps)

\* Pipeline._execute with steps that write and succeed, on a graph with at
\* most one requirement, without SIGINT.
InitOutput ==
    /\ InitNoFailFast
    /\ ~config.skip_missing_interpreters
    /\ Cardinality({p \in (DOMAIN graph) \X (DOMAIN graph) : p[2] \in graph[p[1]]}) <= 1

NextOutput ==
    \/ LoopExit
    \/ GetReady
    \/ Submit
    \/ Record
    \/ \E f \in DOMAIN futures : Completed(f)
    \/ \E f \in DOMAIN futures : StepStarts(f)
    \/ \E f \in DOMAIN futures, stream \in {"stdout", "stderr"} : StepWrites(f, stream)
    \/ \E f \in DOMAIN futures : StepFinishes(f, "None")

OutputSpec == InitOutput /\ [][NextOutput]_vars

\* ------------------------------------------------------------- _build_graph
\* The names steps can have; Pipeline.steps lists the registered ones in this
\* order.
Names == 1..MaxKeys

\* Pipeline.steps in BuildGraphSpec: every name is registered, every step
\* requires a set of the steps listed after it (its `requires`, in that order),
\* at most two steps are StepGroupHandlers and at most one has run_by_default
\* unset.
Registries ==
    {[name \in Names |->
         [requires       |-> Sorted(g[name]),
          group          |-> name \in groups,
          run_by_default |-> name # nondefault]]
     : g \in PipelineGraphs,
       groups \in {G \in SUBSET Names : Cardinality(G) <= 2},
       nondefault \in Names \cup {0}}

\* None where a list of names is expected (0 is no name).
NoList == <<0>>

\* The arguments of _build_graph: steps and except_steps are None or a list of
\* at most two names.
StepLists == {Sorted(S) : S \in {T \in SUBSET Names : Cardinality(T) <= 2}}
Requests ==
    [steps               : StepLists \cup {NoList},
     except_steps        : StepLists \cup {NoList},
     only_selected_steps : BOOLEAN]

\* _build_graph.expand: the loop over the deque to_process, popped from the
\* right; the set built and the exception self.steps[step] raised.
RECURSIVE ExpandLoop(_, _, _)
ExpandLoop(reg, to_process, expanded) ==
    IF to_process = <<>> THEN [expanded |-> expanded, exc |-> None]
    ELSE LET step == to_process[Len(to_process)]
             rest == SubSeq(to_process, 1, Len(to_process) - 1)
             now_expanded == expanded \cup {step}
         IN  IF step \notin DOMAIN reg
             THEN [expanded |-> now_expanded, exc |-> "KeyError"]
             ELSE ExpandLoop(reg,
                             IF reg[step].group
                             THEN rest \o SelectSeq(reg[step].requires,
                                                    LAMBDA req : req \notin now_expanded)
                             ELSE rest,
                             now_expanded)

Expand(reg, steps) == ExpandLoop(reg, steps, {})

\* The loop that builds the whole graph from the deque steps_to_process: the
\* dict `graph` and the list unknown_steps.
RECURSIVE GraphLoop(_, _, _, _)
GraphLoop(reg, steps_to_process, g, unknown_steps) ==
    IF steps_to_process = <<>> THEN [graph |-> g, unknown_steps |-> unknown_steps]
    ELSE LET step == steps_to_process[Len(steps_to_process)]
             rest == SubSeq(steps_to_process, 1, Len(steps_to_process) - 1)
         IN  IF step \notin DOMAIN reg
             THEN GraphLoop(reg, rest, g, Append(unknown_steps, step))
             ELSE LET with_step == SetItem(g, step, reg[step].requires)
                  IN  GraphLoop(reg,
                                rest \o SelectSeq(reg[step].requires,
                                                  LAMBDA requirement :
                                                      requirement \notin DOMAIN with_step),
                                with_step, unknown_steps)

\* d.get(v, [v]) for every v of a list, the lists put end to end.
RECURSIVE Substitute(_, _)
Substitute(value, replacements) ==
    IF value = <<>> THEN <<>>
    ELSE LET v == Head(value)
         IN  (IF v \in DOMAIN replacements THEN replacements[v] ELSE <<v>>)
             \o Substitute(Tail(value), replacements)

\* compute_replacement(requirements): the dict except_replacements that is
\* left, the list returned and the exception raised.  `active` holds the
\* requirements whose replacement is being computed further up the stack: the
\* call for one of them never returns, the interpreter raises RecursionError.
RECURSIVE ComputeReplacement(_, _, _, _, _)
ComputeReplacement(g, steps, except_replacements, requirements, active) ==
    IF requirements = <<>>
    THEN [memo |-> except_replacements, ret |-> <<>>, exc |-> None]
    ELSE LET requirement == Head(requirements)
             first ==
                IF requirement \in SeqToSet(steps)
                THEN [memo |-> except_replacements, ret |-> <<requirement>>, exc |-> None]
                ELSE IF requirement \in DOMAIN except_replacements
                THEN [memo |-> except_replacements,
                      ret  |-> except_replacements[requirement], exc |-> None]
                ELSE IF requirement \in active
                THEN [memo |-> except_replacements, ret |-> <<>>, exc |-> "RecursionError"]
                ELSE LET inner == ComputeReplacement(g, steps, except_replacements,
                                                     g[requirement],
                                                     active \cup {requirement})
                     IN  [memo |-> IF inner.exc = None
                                   THEN SetItem(inner.memo, requirement, inner.ret)
                                   ELSE inner.memo,
                          ret  |-> inner.ret, exc |-> inner.exc]
         IN  IF first.exc # None THEN first
             ELSE LET others == ComputeReplacement(g, steps, first.memo,
                                                   Tail(requirements), active)
                  IN  [memo |-> others.memo, ret |-> first.ret \o others.ret,
                       exc  |-> others.exc]

\* The loop `for step in except_steps_set`: the dicts except_replacements that
\* can result, one for each order in which the set can be iterated, each with
\* the exception raised.
RECURSIVE ExceptLoop(_, _, _, _)
ExceptLoop(g, steps, todo, state) ==
    IF todo = {} \/ state.exc # None THEN {state}
    ELSE UNION {
           ExceptLoop(g, steps, todo \ {step},
               IF step \notin DOMAIN state.memo
                  /\ step \in DOMAIN g /\ g[step] # <<>>
               THEN LET r == ComputeReplacement(g, steps, state.memo, g[step], {})
                    IN  [memo |-> IF r.exc = None THEN SetItem(r.memo, step, r.ret)
                                  ELSE r.memo,
                         exc  |-> r.exc]
               ELSE state)
           : step \in todo}

\* The graphs left once the excluded steps are taken out, each with the
\* exception raised instead.
ExceptFilter(g, steps, except_steps_set) ==
    IF except_steps_set = {} THEN {[graph |-> g, exc |-> None]}
    ELSE {IF state.exc # None THEN [graph |-> <<>>, exc |-> state.exc]
          ELSE [graph |-> [key \in DOMAIN g \ except_steps_set |->
                              Substitute(g[key], state.memo)],
                exc   |-> None]
          : state \in ExceptLoop(g, steps, except_steps_set,
                                 [memo |-> <<>>, exc |-> None])}

\* compute_only_replacement(step, requirements): the dict only_replacements
\* that is left, the list returned and the exception raised; `active` as in
\* ComputeReplacement.
RECURSIVE ComputeOnlyReplacement(_, _, _, _, _, _)
RECURSIVE OnlyRequirements(_, _, _, _, _)
ComputeOnlyReplacement(g, only, only_replacements, step, requirements, active) ==
    IF step \in only THEN [memo |-> only_replacements, ret |-> <<step>>, exc |-> None]
    ELSE OnlyRequirements(g, only, only_replacements, requirements, active)

\* The requirements of a step that was not selected, all dropped.
OnlyRequirementsDropped(g, only, only_replacements, requirements, active) ==
    [memo |-> only_replacements, ret |-> <<>>, exc |-> None]

OnlyRequirements(g, only, only_replacements, requirements, active) ==
    IF requirements = <<>> THEN [memo |-> only_replacements, ret |-> <<>>, exc |-> None]
    ELSE LET requirement == Head(requirements)
             first ==
                IF requirement \in DOMAIN only_replacements
                THEN [memo |-> only_replacements,
                      ret  |-> only_replacements[requirement], exc |-> None]
                ELSE IF requirement \notin DOMAIN g
                THEN [memo |-> only_replacements, ret |-> <<>>, exc |-> "KeyError"]
                ELSE IF requirement \in active
                THEN [memo |-> only_replacements, ret |-> <<>>, exc |-> "RecursionError"]
                ELSE LET inner == ComputeOnlyReplacement(g, only, only_replacements,
                                                         requirement, g[requirement],
                                                         active \cup {requirement})
                     IN  [memo |-> IF inner.exc = None
                                   THEN SetItem(inner.memo, requirement, inner.ret)
                                   ELSE inner.memo,
                          ret  |-> inner.ret, exc |-> inner.exc]
         IN  IF first.exc # None THEN first
             ELSE LET others == OnlyRequirements(g, only, first.memo,
                                                 Tail(requirements), active)
                  IN  [memo |-> others.memo, ret |-> first.ret \o others.ret,
                       exc  |-> others.exc]

\* The loop `for step in graph.keys()` over the keys that are left.
RECURSIVE OnlyLoop(_, _, _, _)
OnlyLoop(g, only, keys, state) ==
    IF keys = <<>> \/ state.exc # None THEN state
    ELSE LET step == Head(keys)
         IN  OnlyLoop(g, only, Tail(keys),
                 IF step \in DOMAIN state.memo THEN state
                 ELSE LET r == ComputeOnlyReplacement(g, only, state.memo, step, g[step],
                                                      {step})
                      IN  [memo |-> IF r.exc = None THEN SetItem(r.memo, step, r.ret)
                                    ELSE r.memo,
                           ret |-> r.ret, exc |-> r.exc])

\* only-filtering that keeps every step the selected steps require.
OnlyFilterKeepsAll(reg, g, steps) == [graph |-> g, exc |-> None]

\* The graph left once the steps that were not selected are taken out, or the
\* exception raised.
OnlyFilter(reg, g, steps) ==
    LET only == Expand(reg, steps)
        state == OnlyLoop(g, only.expanded, Sorted(DOMAIN g),
                          [memo |-> <<>>, ret |-> <<>>, exc |-> None])
    IN  IF only.exc # None THEN [graph |-> <<>>, exc |-> only.exc]
        ELSE IF state.exc # None THEN [graph |-> <<>>, exc |-> state.exc]
        ELSE [graph |-> [key \in DOMAIN g \cap only.expanded |->
                            Substitute(g[key], state.memo)],
              exc   |-> None]

\* The default of `steps`: the names that run by default and are not excluded.
DefaultSteps(reg, except_steps_set) ==
    SelectSeq(Sorted(DOMAIN reg),
              LAMBDA name : reg[name].run_by_default /\ name \notin except_steps_set)

\* What a call of _build_graph that raised leaves.
Raises(exc, steps) == [graph |-> <<>>, exc |-> exc, unknown_steps |-> steps]

\* Pipeline._build_graph(steps, except_steps, only_selected_steps): the graphs
\* that can be returned, each with the exception raised instead and the steps
\* an UnknownStepsException lists.
BuildGraph(reg, steps, except_steps, only_selected_steps) ==
    LET excepted == IF except_steps = NoList THEN [expanded |-> {}, exc |-> None]
                    ELSE Expand(reg, except_steps)
        except_steps_set == excepted.expanded
        roots == IF steps = NoList THEN DefaultSteps(reg, except_steps_set) ELSE steps
        whole == GraphLoop(reg, roots, <<>>, <<>>)
    IN  IF excepted.exc # None THEN {Raises(excepted.exc, <<>>)}
        ELSE IF whole.unknown_steps # <<>>
        THEN {Raises("UnknownStepsException", whole.unknown_steps)}
        ELSE {IF filtered.exc # None THEN Raises(filtered.exc, <<>>)
              ELSE IF only_selected_steps
              THEN LET r == OnlyFilter(reg, filtered.graph, roots)
                   IN  [graph |-> r.graph, exc |-> r.exc, unknown_steps |-> <<>>]
              ELSE [graph |-> filtered.graph, exc |-> None, unknown_steps |-> <<>>]
              : filtered \in ExceptFilter(whole.graph, roots, except_steps_set)}

\* The variables BuildGraphSpec and the two specifications after it leave alone.
notBuildVars == <<graph, schedulerVars, resolverData, pipelineVars, chainVars, procVars>>

\* The other objects do not exist.
NotBuilding ==
    /\ graph = <<>>
    /\ scheduler = NoScheduler /\ now = 0
    /\ resolver = NoResolver /\ entries = <<>> /\ cycle = <<>>
    /\ NoPipeline
    /\ NoChains /\ NoProcesses

InitBuildGraph ==
    /\ registered \in Registries
    /\ request \in Requests
    /\ built = <<>>
    /\ unknown = <<>>
    /\ pc = "build"
    /\ raised = None
    /\ NotBuilding

\* The call of _build_graph.
CallBuildGraph ==
    /\ pc = "build"
    /\ \E r \in BuildGraph(registered, request.steps, request.except_steps,
                           request.only_selected_steps) :
          /\ built' = r.graph
          /\ unknown' = r.unknown_steps
          /\ raised' = r.exc
          /\ pc' = IF r.exc = None THEN "built" ELSE "raised"
    /\ UNCHANGED <<registered, request, notBuildVars>>

NextBuildGraph == CallBuildGraph

BuildGraphSpec == InitBuildGraph /\ [][NextBuildGraph]_vars

\* ------------------------------------------------ references to unknown steps
\* Pipeline.steps with one or two of the names not registered: the steps that
\* are registered may require them; at most one step is a StepGroupHandler.
PartialRegistries ==
    {[name \in Names \ missing |->
         [requires       |-> Sorted(g[name]),
          group          |-> name = grp,
          run_by_default |-> TRUE]]
     : g \in PipelineGraphs,
       grp \in Names \cup {0},
       missing \in {M \in SUBSET Names : Cardinality(M) \in {1, 2}}}

\* The requests made of such a pipeline: except_steps is None or one name.
UnknownRequests ==
    {r \in Requests : r.except_steps = NoList \/ Len(r.except_steps) = 1}

\* dwas is started from the command line ("cli") or Pipeline.execute is called
\* by a program ("build").
InitUnknownSteps ==
    /\ registered \in PartialRegistries
    /\ request \in UnknownRequests
    /\ built = <<>>
    /\ unknown = <<>>
    /\ pc \in {"cli", "build"}
    /\ raised = None
    /\ NotBuilding

\* _execute_pipeline up to the call of Pipeline.execute: _parse_steps and the
\* loop over except_steps raise for a name that is not in pipeline.steps.
ExecutePipeline ==
    /\ pc = "cli"
    /\ LET requested == IF request.steps = NoList THEN {} ELSE SeqToSet(request.steps)
           excepted == IF request.except_steps = NoList THEN {}
                       ELSE SeqToSet(request.except_steps)
       IN  IF (requested \cup excepted) \subseteq DOMAIN registered
           THEN pc' = "build" /\ raised' = None
           ELSE pc' = "raised" /\ raised' = "BaseDwasException"
    /\ UNCHANGED <<registered, request, built, unknown, notBuildVars>>

NextUnknownSteps ==
    \/ ExecutePipeline
    \/ CallBuildGraph

UnknownStepsSpec == InitUnknownSteps /\ [][NextUnknownSteps]_vars

\* ------------------------------------------------------- cyclic requirements
\* Pipeline.steps with every name registered and every step requiring at most
\* one step, any one; at most one step is a StepGroupHandler.
CyclicRegistries ==
    {[name \in Names |->
         [requires       |-> IF req[name] = 0 THEN <<>> ELSE <<req[name]>>,
          group          |-> name = grp,
          run_by_default |-> TRUE]]
     : req \in [Names -> Names \cup {0}], grp \in Names \cup {0}}

InitCyclicSteps ==
    /\ registered \in CyclicRegistries
    /\ request \in UnknownRequests
    /\ built = <<>>
    /\ unknown = <<>>
    /\ pc = "build"
    /\ raised = None
    /\ NotBuilding

\* The nodes graphlib.TopologicalSorter makes of a graph, keys and requirements,
\* with the nodes each one requires.
SorterGraph(g) ==
    LET nodes == DOMAIN g \cup UNION {SeqToSet(g[key]) : key \in DOMAIN g}
    IN  [n \in nodes |-> IF n \in DOMAIN g THEN SeqToSet(g[n]) ELSE {}]

\* Pipeline._resolve_execution_order on the graph built: static_order raises
\* CycleError when the graph has a cycle, and the list it returns is not kept.
ResolveExecutionOrder ==
    /\ pc = "built"
    /\ IF HasCycle(SorterGraph(built))
       THEN pc' = "raised" /\ raised' = "CyclicStepDependenciesException"
       ELSE pc' = "ordered" /\ raised' = None
    /\ UNCHANGED <<registered, request, built, unknown, notBuildVars>>

NextCyclicSteps ==
    \/ CallBuildGraph
    \/ ResolveExecutionOrder

CyclicStepsSpec == InitCyclicSteps /\ [][NextCyclicSteps]_vars

\* --------------------------------------------------- _compute_slowest_chains
\* The lists that hold each member of S once.
Orderings(S) == {l \in [1..Cardinality(S) -> S] : SeqToSet(l) = S}

\* The graphs handed to _compute_slowest_chains: MaxKeys keys, each with the
\* list of its requirements, any keys listed after it in any order.
ChainGraphs ==
    {g \in [1..MaxKeys -> UNION {Orderings(S) : S \in SUBSET (1..MaxKeys)}] :
        \A s \in DOMAIN g : \A d \in SeqToSet(g[s]) : d > s}

\* The `results` of a run on such a graph: a step has a result only when its
\* requirements have one; each result is (None, time spent), a number of
\* seconds from 1 to MaxDuration.
ChainResults(g) ==
    UNION {[S -> {None} \X (1..MaxDuration)] :
             S \in {R \in SUBSET DOMAIN g : \A s \in R : SeqToSet(g[s]) \subseteq R}}

\* The key of max() keeps a later chain that takes as long.
SlowerOrAsSlow(candidate, best) == candidate[2] >= best[2]

\* max(..., key=lambda dep: dep[1]) replaces the chain it holds by a later
\* one only when that one takes longer.
Slower(candidate, best) == candidate[2] > best[2]

RECURSIVE ComputeChain(_, _, _, _)
RECURSIVE MaxChain(_, _, _, _, _)

\* compute_chain(step): the dict total_time_per_step afterwards, what the
\* call returned and the exception it raised.
ComputeChain(g, res, total, step) ==
    IF step \in DOMAIN total
    THEN [total |-> total, ret |-> total[step], exc |-> None]
    ELSE IF step \notin DOMAIN res
    THEN [total |-> total, ret |-> <<<<>>, 0>>, exc |-> "KeyError"]
    ELSE LET time_for_current_step == res[step][2]
         IN  IF g[step] = <<>>
             THEN LET chain == <<<<step>>, time_for_current_step>>
                  IN  [total |-> SetItem(total, step, chain), ret |-> chain, exc |-> None]
             ELSE LET first == ComputeChain(g, res, total, Head(g[step]))
                      slowest == IF first.exc # None THEN first
                                 ELSE MaxChain(g, res, first.total, Tail(g[step]), first.ret)
                      chain == <<<<step>> \o slowest.ret[1],
                                 time_for_current_step + slowest.ret[2]>>
                  IN  IF slowest.exc # None THEN slowest
                      ELSE [total |-> SetItem(slowest.total, step, chain),
                            ret   |-> chain,
                            exc   |-> None]

\* max() over the generator of compute_chain(dependency), from the rest
\* `dependencies` of graph[step] on, `best` being the chain it holds.
MaxChain(g, res, total, dependencies, best) ==
    IF dependencies = <<>> THEN [total |-> total, ret |-> best, exc |-> None]
    ELSE LET next == ComputeChain(g, res, total, Head(dependencies))
         IN  IF next.exc # None THEN next
             ELSE MaxChain(g, res, next.total, Tail(dependencies),
                           IF Slower(next.ret, best) THEN next.ret ELSE best)

\* The loop `for step in results.keys()` over the keys in the order `keys`.
RECURSIVE ComputeSlowestChainsLoop(_, _, _, _)
ComputeSlowestChainsLoop(g, res, keys, total) ==
    IF keys = <<>> THEN [total |-> total, exc |-> None]
    ELSE LET r == ComputeChain(g, res, total, Head(keys))
         IN  IF r.exc # None THEN [total |-> r.total, exc |-> r.exc]
             ELSE ComputeSlowestChainsLoop(g, res, Tail(keys), r.total)

\* Pipeline._compute_slowest_chains(graph, results), the keys of results
\* being in the order `keys`.
ComputeSlowestChains(g, res, keys) == ComputeSlowestChainsLoop(g, res, keys, <<>>)

InitChains ==
    /\ graph \in ChainGraphs
    /\ chain_results \in ChainResults(graph)
    /\ total_time_per_step = <<>>
    /\ pc = "chains"
    /\ raised = None
    /\ scheduler = NoScheduler /\ now = 0
    /\ resolver = NoResolver /\ entries = <<>> /\ cycle = <<>>
    /\ NoPipeline /\ NoBuild /\ NoProcesses

\* The call of _compute_slowest_chains, for every order the steps can have
\* completed in.
CallComputeSlowestChains ==
    /\ pc = "chains"
    /\ \E keys \in Orderings(DOMAIN chain_results) :
          LET r == ComputeSlowestChains(graph, chain_results, keys)
          IN  /\ total_time_per_step' = r.total
              /\ raised' = r.exc
              /\ pc' = IF r.exc # None THEN "chains_raised" ELSE "chains_returned"
    /\ UNCHANGED <<graph, chain_results, schedulerVars, resolverData, pipelineVars,
                   buildVars, procVars>>

NextChains == CallComputeSlowestChains

ChainsSpec == InitChains /\ [][NextChains]_vars

\* ------------------------------------------------------------ ProcessManager
\* The threads that call ProcessManager.run.
Workers == 1..NumWorkers

\* A thread that has not called run(): no child process.
IdleWorker == [pc |-> "idle", child |-> "none", after_kill |-> FALSE]

\* kill() holds ProcessManager._lock from its `with` statement to its return.
LockHeld == pc = "kill_waiting"

InitProcesses ==
    /\ was_killed = FALSE
    /\ processes = {}
    /\ workers = [w \in Workers |-> IdleWorker]
    /\ pc = "run"
    /\ raised = None
    /\ graph = <<>>
    /\ scheduler = NoScheduler /\ now = 0
    /\ resolver = NoResolver /\ entries = <<>> /\ cycle = <<>>
    /\ NoPipeline /\ NoBuild /\ NoChains

frameProcesses == <<graph, schedulerVars, resolverData, pipelineVars, buildVars, chainVars>>

\* run(), lines 89-92: KeyboardInterrupt when kill() was called, else go on
\* to _run().
RunChecks(w) ==
    /\ workers[w].pc = "idle"
    /\ workers' = [workers EXCEPT ![w].pc = IF was_killed THEN "raised" ELSE "checked"]
    /\ UNCHANGED <<was_killed, processes, pc, raised, frameProcesses>>

\* _run(), lines 95-108: subprocess.Popen starts the child in a session of
\* its own. after_kill records that kill() had already sent its SIGTERMs.
RunSpawns(w) ==
    /\ workers[w].pc = "checked"
    /\ workers' = [workers EXCEPT ![w] =
                      [pc |-> "spawned", child |-> "alive",
                       after_kill |-> pc \in {"kill_waiting", "kill_returned"}]]
    /\ UNCHANGED <<was_killed, processes, pc, raised, frameProcesses>>

\* _add(proc), line 109, under the lock.
RunAdds(w) ==
    /\ workers[w].pc = "spawned"
    /\ ~LockHeld
    /\ processes' = processes \cup {w}
    /\ workers' = [workers EXCEPT ![w].pc = "added"]
    /\ UNCHANGED <<was_killed, pc, raised, frameProcesses>>

\* The child exits, of itself or because of a SIGTERM it received.
ChildExits(w) ==
    /\ workers[w].child \in {"alive", "terminated"}
    /\ workers' = [workers EXCEPT ![w].child = "exited"]
    /\ UNCHANGED <<was_killed, processes, pc, raised, frameProcesses>>

\* Lines 124-133: the readers reach the end of the output of the child, then
\* _remove(proc) under the lock, and run() ends.
RunRemoves(w) ==
    /\ workers[w].pc = "added"
    /\ workers[w].child = "exited"
    /\ ~LockHeld
    /\ processes' = processes \ {w}
    /\ workers' = [workers EXCEPT ![w].pc = "done"]
    /\ UNCHANGED <<was_killed, pc, raised, frameProcesses>>

\* The thread calls run() again after a run that ended.
RunAgain(w) ==
    /\ workers[w].pc = "done"
    /\ workers' = [workers EXCEPT ![w] = IdleWorker]
    /\ UNCHANGED <<was_killed, processes, pc, raised, frameProcesses>>

\* kill(), line 42.
KillFlags ==
    /\ pc = "run"
    /\ was_killed' = TRUE
    /\ pc' = "kill_flagged"
    /\ UNCHANGED <<processes, workers, raised, frameProcesses>>

\* kill(), lines 44-54: takes the lock and sends SIGTERM to the group of
\* every process of self.processes.
KillTerminates ==
    /\ pc = "kill_flagged"
    /\ workers' = [w \in Workers |->
                     IF w \in processes /\ workers[w].child = "alive"
                     THEN [workers[w] EXCEPT !.child = "terminated"]
                     ELSE workers[w]]
    /\ pc' = "kill_waiting"
    /\ UNCHANGED <<was_killed, processes, raised, frameProcesses>>

\* kill(), lines 59-68: every process of self.processes exited within the
\* five seconds.
KillReturns ==
    /\ pc = "kill_waiting"
    /\ \A w \in processes : workers[w].child = "exited"
    /\ pc' = "kill_returned"
    /\ UNCHANGED <<was_killed, processes, workers, raised, frameProcesses>>

\* kill(), lines 64-80: a process took too long, SIGKILL to the group of
\* every process of self.processes.
KillKills ==
    /\ pc = "kill_waiting"
    /\ \E w \in processes : workers[w].child # "exited"
    /\ workers' = [w \in Workers |->
                     IF w \in processes
                     THEN [workers[w] EXCEPT !.child = "exited"]
                     ELSE workers[w]]
    /\ pc' = "kill_returned"
    /\ UNCHANGED <<was_killed, processes, raised, frameProcesses>>

NextProcesses ==
    \/ \E w \in Workers : RunChecks(w)
    \/ \E w \in Workers : RunSpawns(w)
    \/ \E w \in Workers : RunAdds(w)
    \/ \E w \in Workers : ChildExits(w)
    \/ \E w \in Workers : RunRemoves(w)
    \/ \E w \in Workers : RunAgain(w)
    \/ KillFlags
    \/ KillTerminates
    \/ KillReturns
    \/ KillKills

ProcessSpec == InitProcesses /\ [][NextProcesses]_vars

\* ------------------------------------------------------------------- claims
\* The names of the collections of the scheduler that hold step s.
CollectionsOf(sch, s) ==
    {n \in {"waiting", "success", "failed", "blocked", "cancelled", "skipped"} : s \in sch[n]}
    \cup (IF s \in SeqToSet(sch.ready) THEN {"ready"} ELSE {})
    \cup (IF s \in DOMAIN sch.running THEN {"running"} ELSE {})

AllCollections(sch) ==
    sch.waiting \cup SeqToSet(sch.ready) \cup DOMAIN sch.running \cup sch.success
    \cup sch.failed \cup sch.blocked \cup sch.cancelled \cup sch.skipped

NoDuplicates(l) == \A i, j \in DOMAIN l : l[i] = l[j] => i = j

\* The transitive dependents of step s in the graph of the scheduler.
Dependents(s) == TransitiveDependents(graph, s)
DirectDependents(s) == {t \in Steps : s \in graph[t]}

\* The steps of this transition: mark_failed(s), mark_success(s) or
\* mark_skipped(s) was called on the running step s, or stop() was called.
MarkFailedOf(s) == s \in DOMAIN scheduler.running /\ s \in scheduler'.failed
MarkSuccessOf(s) == s \in DOMAIN scheduler.running /\ s \in scheduler'.success
MarkSkippedOf(s) == s \in DOMAIN scheduler.running /\ s \in scheduler'.skipped
StopCalled == ~scheduler.stopped /\ scheduler'.stopped

\* What the collections and results say of step u is the same in sch1 and sch2.
SameStep(sch1, sch2, u) ==
    /\ CollectionsOf(sch1, u) = CollectionsOf(sch2, u)
    /\ sch1.dependencies_graph[u] = sch2.dependencies_graph[u]
    /\ (u \in DOMAIN sch1.results) = (u \in DOMAIN sch2.results)
    /\ u \in DOMAIN sch1.results => sch1.results[u] = sch2.results[u]
    /\ u \in DOMAIN sch1.running => sch1.running[u] = sch2.running[u]

\* C1: after any sequence of valid operations every step is in exactly one of
\* waiting, ready, running, success, failed, blocked, cancelled, skipped, the
\* union of the eight collections is the step set of the graph, and ready lists
\* no step twice.
C1_StatePartition ==
    /\ \A s \in Steps : Cardinality(CollectionsOf(scheduler, s)) = 1
    /\ AllCollections(scheduler) = DOMAIN graph
    /\ NoDuplicates(scheduler.ready)

\* C1 witness: a stopped scheduler on which steps have succeeded, failed, been
\* blocked and been cancelled.
C1_Witness ==
    /\ scheduler.stopped
    /\ scheduler.success # {} /\ scheduler.failed # {}
    /\ scheduler.blocked # {} /\ scheduler.cancelled # {}

\* C2: every step that is ready or running, or completed as success, failed or
\* skipped, has all its direct dependencies in success or skipped.
C2_ReadyOnlyAfterDependencies ==
    \A s \in SeqToSet(scheduler.ready) \cup DOMAIN scheduler.running
             \cup scheduler.success \cup scheduler.failed \cup scheduler.skipped :
        graph[s] \subseteq scheduler.success \cup scheduler.skipped

\* C2 witness: a step with several dependencies has become ready, one of its
\* dependencies having succeeded and another been skipped.
C2_Witness ==
    \E s \in SeqToSet(scheduler.ready) :
        /\ graph[s] \cap scheduler.success # {}
        /\ graph[s] \cap scheduler.skipped # {}

\* C3: when mark_failed(s) on a running step s returns, s is in failed, every
\* transitive dependent of s is in blocked with a zero-duration BLOCKED result,
\* every other step keeps its state (ready keeps its order), and starting or
\* completing a step returns normally.
C3_MarkFailedBlocksDependents ==
    [][/\ \A s \in Steps : (MarkFailedOf(s) /\ raised' = None) =>
            /\ scheduler'.results[s].result = FAILED
            /\ Dependents(s) \subseteq scheduler'.blocked
            /\ \A d \in Dependents(s) :
                  scheduler'.results[d] = Result(BLOCKED, TimedeltaZero, None)
            /\ \A u \in Steps \ (Dependents(s) \cup {s}) :
                  SameStep(scheduler, scheduler', u)
            /\ scheduler'.ready = scheduler.ready
       /\ (\A s \in Steps : ~MarkFailedOf(s)) => raised' = None
      ]_vars

\* C3 witness: mark_failed has returned on a step that has an indirect
\* dependent, and a step that does not depend on it is ready or running.
C3_Witness ==
    /\ raised = None
    /\ \E s \in scheduler.failed :
          /\ Dependents(s) \ DirectDependents(s) # {}
          /\ Dependents(s) \subseteq scheduler.blocked
    /\ SeqToSet(scheduler.ready) \cup DOMAIN scheduler.running # {}

\* C4: mark_failed on a running step completes without raising, whatever the
\* graph and the order in which the sets of dependents are iterated.
C4_MarkFailedNeverRaises ==
    [][\A s \in Steps : MarkFailedOf(s) => raised' = None]_vars

\* C5: mark_success(s) on a running step s moves s to success, removes s from
\* the remaining dependencies of each direct dependent (the steps that require
\* s and are not blocked), appends to ready exactly the direct dependents that
\* were waiting and are left without remaining dependencies, and changes the
\* state of no other step.
C5_MarkSuccessUnblocks ==
    [][\A s \in Steps : MarkSuccessOf(s) =>
         LET sch == scheduler
             dependents == sch.dependents_graph[s]
             newly == {d \in dependents :
                          d \in sch.waiting /\ sch.dependencies_graph[d] = {s}}
         IN  /\ raised' = None
             /\ DOMAIN scheduler'.running = DOMAIN sch.running \ {s}
             /\ scheduler'.success = sch.success \cup {s}
             /\ \A d \in Steps :
                   scheduler'.dependencies_graph[d] =
                      IF d \in dependents THEN sch.dependencies_graph[d] \ {s}
                      ELSE sch.dependencies_graph[d]
             /\ dependents = DirectDependents(s) \ sch.blocked
             /\ newly = {d \in sch.waiting \cap DirectDependents(s) :
                           graph[d] \ {s} \subseteq sch.success \cup sch.skipped}
             /\ scheduler'.waiting = sch.waiting \ newly
             /\ SubSeq(scheduler'.ready, 1, Len(sch.ready)) = sch.ready
             /\ SeqToSet(scheduler'.ready) = SeqToSet(sch.ready) \cup newly
             /\ Len(scheduler'.ready) = Len(sch.ready) + Cardinality(newly)
             /\ scheduler'.failed = sch.failed
             /\ scheduler'.blocked = sch.blocked
             /\ scheduler'.cancelled = sch.cancelled
             /\ scheduler'.skipped = sch.skipped
      ]_vars

\* C5 witness: mark_success has made one dependent ready and left another
\* dependent, which has an unfinished dependency, waiting.
C5_Witness ==
    \E s \in scheduler.success :
        /\ \E d \in SeqToSet(scheduler.ready) : s \in graph[d]
        /\ \E d \in scheduler.waiting : s \in graph[d]

\* What mark_skipped and mark_success are to agree on.
OtherCollections(c) ==
    <<c.sch.waiting, c.sch.ready, c.sch.running, c.sch.failed, c.sch.blocked,
      c.sch.cancelled, c.exc>>

\* C6: from any state in which s is running, mark_skipped(s, err) and
\* mark_success(s) yield the same waiting, ready, running, failed, blocked and
\* cancelled, and differ only in s being in skipped rather than in success.
C6_SkippedUnblocksLikeSuccess ==
    raised = None =>
        \A s \in DOMAIN scheduler.running : \A exc \in Exceptions :
            LET bySkipped == SchedMarkSkipped(scheduler, s, exc, now)
                bySuccess == SchedMarkSuccess(scheduler, s, now)
            IN  /\ {OtherCollections(c) : c \in bySkipped}
                     = {OtherCollections(c) : c \in bySuccess}
                /\ \A c \in bySkipped :
                      /\ c.sch.skipped = scheduler.skipped \cup {s}
                      /\ c.sch.success = scheduler.success
                /\ \A c \in bySuccess :
                      /\ c.sch.success = scheduler.success \cup {s}
                      /\ c.sch.skipped = scheduler.skipped

\* C6 witness: mark_skipped has made a dependent of the skipped step ready
\* while a step whose completion unblocks a waiting dependent is running.
C6_Witness ==
    /\ \E s \in scheduler.skipped : \E d \in SeqToSet(scheduler.ready) : s \in graph[d]
    /\ \E s \in DOMAIN scheduler.running :
          \E d \in scheduler.waiting : scheduler.dependencies_graph[d] = {s}

\* C7: stop() moves every step of ready and of waiting to cancelled with a
\* zero-duration CANCELLED result, and leaves running, success, failed,
\* skipped, blocked and the results of the finished steps unchanged.
C7_StopCancelsPending ==
    [][StopCalled =>
         LET sch == scheduler
             drained == SeqToSet(sch.ready) \cup sch.waiting
         IN  /\ raised' = None
             /\ scheduler'.ready = <<>>
             /\ scheduler'.waiting = {}
             /\ scheduler'.cancelled = sch.cancelled \cup drained
             /\ \A d \in drained :
                   scheduler'.results[d] = Result(CANCELLED, TimedeltaZero, None)
             /\ DOMAIN scheduler'.results = DOMAIN sch.results \cup drained
             /\ \A d \in DOMAIN sch.results : scheduler'.results[d] = sch.results[d]
             /\ scheduler'.running = sch.running
             /\ scheduler'.success = sch.success
             /\ scheduler'.failed = sch.failed
             /\ scheduler'.skipped = sch.skipped
             /\ scheduler'.blocked = sch.blocked
      ]_vars

\* C7 witness: stop() has cancelled a step that was ready and a step that was
\* waiting, while a step is running and others have finished or are blocked.
C7_Witness ==
    /\ scheduler.stopped
    /\ DOMAIN scheduler.running # {}
    /\ DOMAIN scheduler.results \ scheduler.cancelled # {}
    /\ \E d \in scheduler.cancelled : scheduler.dependencies_graph[d] # {}
    /\ \E d \in scheduler.cancelled : graph[d] = {}

\* C8: once stop() has been called no step enters ready or running; the
\* mark_success or mark_skipped of a step still running returns normally and
\* records a result for it, and the cancelled steps stay cancelled.
C8_NothingStartsAfterStop ==
    [][scheduler.stopped =>
         /\ scheduler'.stopped
         /\ scheduler'.ready = <<>>
         /\ scheduler'.waiting = {}
         /\ DOMAIN scheduler'.running \subseteq DOMAIN scheduler.running
         /\ \A s \in Steps : (MarkSuccessOf(s) \/ MarkSkippedOf(s)) =>
               /\ raised' = None
               /\ s \in DOMAIN scheduler'.results
               /\ scheduler'.results[s].result \notin {BLOCKED, CANCELLED}
               /\ MarkSuccessOf(s) => scheduler'.results[s].result = SUCCESS
               /\ scheduler'.cancelled = scheduler.cancelled
               /\ scheduler'.blocked = scheduler.blocked
      ]_vars

\* C8 witness: after stop(), a step still running is the last remaining
\* dependency of a cancelled step; its mark_success returns normally and
\* leaves the dependent cancelled and ready empty.
C8_Witness ==
    /\ scheduler.stopped /\ raised = None
    /\ \E s \in DOMAIN scheduler.running : \E d \in scheduler.cancelled :
          /\ scheduler.dependencies_graph[d] = {s}
          /\ \A c \in SchedMarkSuccess(scheduler, s, now) :
                /\ c.exc = None
                /\ d \in c.sch.cancelled
                /\ c.sch.ready = <<>>

\* C9: after stop(), mark_failed on a step still running is accepted and moves
\* each of its transitive dependents from cancelled to blocked with a BLOCKED
\* result, so that no dependent of a failed step remains in cancelled.
C9_FailedAfterStopBlocksCancelled ==
    [][\A s \in Steps : (scheduler.stopped /\ MarkFailedOf(s)) =>
         /\ raised' = None
         /\ Dependents(s) \subseteq scheduler'.blocked
         /\ \A d \in Dependents(s) : scheduler'.results[d].result = BLOCKED
         /\ \A f \in scheduler'.failed : Dependents(f) \cap scheduler'.cancelled = {}
      ]_vars

\* C9 restricted to the calls of mark_failed that return.
C9_WhenReturned ==
    [][\A s \in Steps : (scheduler.stopped /\ MarkFailedOf(s) /\ raised' = None) =>
         /\ Dependents(s) \subseteq scheduler'.blocked
         /\ \A d \in Dependents(s) : scheduler'.results[d].result = BLOCKED
         /\ \A f \in scheduler'.failed : Dependents(f) \cap scheduler'.cancelled = {}
      ]_vars

\* C10: whenever the scheduler is done (ready and running both empty), waiting
\* is empty too.
C10_DoneLeavesNoWaiting ==
    ~SchedBool(scheduler) => scheduler.waiting = {}

\* C10 restricted to the schedulers on which no operation has raised.
C10_WhenReturned == raised = None => C10_DoneLeavesNoWaiting

\* The moves of a step between the collections of the scheduler.
Moves ==
    {<<"waiting", "ready">>, <<"ready", "running">>,
     <<"running", "success">>, <<"running", "failed">>, <<"running", "skipped">>,
     <<"waiting", "cancelled">>, <<"ready", "cancelled">>,
     <<"waiting", "blocked">>, <<"cancelled", "blocked">>}

\* The collections a step can be in after a chain of moves from collection n.
RECURSIVE Later(_)
Later(n) == UNION {{m[2]} \cup Later(m[2]) : m \in {x \in Moves : x[1] = n}}

\* C11: the transitions of a step are one-directional: in one operation a step
\* either stays in its collection or makes one of the moves waiting to
\* ready, ready to running, running to success, failed or skipped, waiting or
\* ready to cancelled, waiting or cancelled to blocked; so no step leaves
\* success, failed, skipped or blocked, and none re-enters a collection it has
\* left (no chain of moves leads from a collection back to itself).
C11_OneDirectionalTransitions ==
    [][\A s \in Steps :
         \A n \in CollectionsOf(scheduler, s) : \A m \in CollectionsOf(scheduler', s) :
            /\ m = n \/ m \in Later(n)
            /\ n \notin Later(n)
            /\ n \in {"success", "failed", "skipped", "blocked"} => m = n
            /\ m # n => <<n, m>> \in Moves
      ]_vars

\* C11 witness: one step has failed, a second is blocked and a third, which
\* was ready when stop() was called, is cancelled, next to a skipped step.
C11_Witness ==
    /\ raised = None /\ scheduler.stopped
    /\ scheduler.failed # {} /\ scheduler.blocked # {}
    /\ scheduler.skipped # {}
    /\ \E s \in scheduler.cancelled : graph[s] = {}

\* l lists every key of g once, each after all of its dependencies.
TopologicalOrder(l, g) ==
    /\ Len(l) = Cardinality(DOMAIN g)
    /\ SeqToSet(l) = DOMAIN g
    /\ \A i \in DOMAIN l : \A d \in g[l[i]] : \E j \in 1..(i - 1) : l[j] = d

\* C12: for an acyclic mapping whose dependencies are all keys,
\* Resolver(graph).order() raises nothing, terminates, and returns a list
\* holding every step exactly once, each step after all of its dependencies.
C12_OrderIsTopological ==
    /\ [](~HasCycle(graph) => pc # "raised")
    /\ [](pc = "returned" => TopologicalOrder(entries, graph))
    /\ (~HasCycle(graph) /\ pc = "new") ~> (pc = "returned")

\* C12 witness: order() returned for a mapping whose first key requires the
\* last one, which requires nothing, and whose keys all take part in an edge.
C12_Witness ==
    /\ pc = "returned"
    /\ Cardinality(DOMAIN graph) = MaxKeys
    /\ MaxKeys \in graph[1] /\ graph[MaxKeys] = {}
    /\ \A s \in DOMAIN graph : graph[s] # {} \/ \E t \in DOMAIN graph : s \in graph[t]
    /\ entries[1] = MaxKeys

\* C13: Resolver(graph) raises CyclicStepDependenciesException if and only if
\* the mapping (whose dependencies are all keys) contains a cycle, a step
\* requiring itself included; the caller gets a Resolver, and from it a
\* Scheduler (pc is "built", "order" or "returned"), only for a mapping
\* without cycle.
C13_CyclicIffRaises ==
    /\ pc # "new" =>
          (HasCycle(graph) <=>
              (pc = "raised" /\ raised = "CyclicStepDependenciesException"))
    /\ HasCycle(graph) => pc \in {"new", "raised"}

\* C13 witness: the constructor raised for a step requiring itself, and for a
\* cycle of two steps that a third one, outside the cycle, requires.
C13_Witness ==
    /\ pc = "raised" /\ raised = "CyclicStepDependenciesException"
    /\ \/ \E s \in DOMAIN graph : s \in graph[s]
       \/ /\ \A s \in DOMAIN graph : s \notin graph[s]
          /\ Cardinality(DOMAIN graph) >= 3
          /\ \E s \in DOMAIN graph : s \notin AllRequirements(graph, s)

\* The steps _execute submitted so far.
Submitted == {futures[f].name : f \in DOMAIN futures}

\* The result recorded for step d lets its dependents run: d returned, or it
\* raised UnavailableInterpreterException and skip_missing_interpreters is set.
FinishedWell(d) ==
    /\ d \in DOMAIN results
    /\ \/ results[d] = "None"
       \/ results[d] = "UnavailableInterpreterException" /\ config.skip_missing_interpreters

\* C14: during Pipeline.execute every step submitted for execution has all of
\* its requirements in the graph finished successfully, or skipped for a
\* missing interpreter with skip_missing_interpreters set, at the time it is
\* submitted (results are never withdrawn); no step is submitted twice.
C14_SubmittedAfterRequirements ==
    /\ \A f \in DOMAIN futures : \A d \in graph[futures[f].name] : FinishedWell(d)
    /\ \A f1, f2 \in DOMAIN futures : futures[f1].name = futures[f2].name => f1 = f2
    /\ \A s \in SeqToSet(ready) : \A d \in graph[s] : FinishedWell(d)

\* C14 witness: a step with two requirements was submitted, one requirement
\* having returned and the other one having been skipped.
C14_Witness ==
    \E f \in DOMAIN futures :
       LET name == futures[f].name
       IN  /\ \E d \in graph[name] : results[d] = "None"
           /\ \E d \in graph[name] : results[d] = "UnavailableInterpreterException"

\* The body of step s was run to its end, and it failed: it raised an
\* exception that is not a tolerated UnavailableInterpreterException.
Executed(s) == \E f \in DOMAIN futures : futures[f].name = s /\ futures[f].state = "FINISHED"
FailedStep(s) ==
    \E f \in DOMAIN futures :
       /\ futures[f].name = s /\ futures[f].state = "FINISHED"
       /\ \/ futures[f].outcome = "Exception"
          \/ /\ futures[f].outcome = "UnavailableInterpreterException"
             /\ ~config.skip_missing_interpreters

\* C15: in a run without fail_fast and without interrupt, no transitive
\* dependent of a step that failed is ever submitted for execution, and
\* _execute comes to its end (pc is "summary") with every step that does not
\* transitively require a failed step executed.
C15_FailureContainment ==
    /\ [](\A s \in DOMAIN graph :
             FailedStep(s) => TransitiveDependents(graph, s) \cap Submitted = {})
    /\ <>(/\ pc = "summary"
          /\ \A s \in DOMAIN graph :
                (\A d \in AllRequirements(graph, s) : ~FailedStep(d)) => Executed(s))

\* C15 witness: the run ended with a failed step that has a dependent, and a
\* step that was submitted after the failed one and returned.
C15_Witness ==
    /\ pc = "raised"
    /\ \E s \in DOMAIN graph :
          /\ FailedStep(s)
          /\ TransitiveDependents(graph, s) # {}
          /\ \E f, e \in DOMAIN futures :
                /\ futures[e].name = s /\ e < f
                /\ futures[f].outcome = "None" /\ futures[f].state = "FINISHED"

\* _execute has recorded the failure of a step.
ProcessedFailure ==
    \E s \in DOMAIN results :
       \/ results[s] = "Exception"
       \/ results[s] = "UnavailableInterpreterException" /\ ~config.skip_missing_interpreters

\* C16: with fail_fast set, when execute has ended after the failure of a
\* step was processed, every submitted step has finished or was cancelled
\* before it started, and the result recorded for a finished step is what
\* its body did: the steps that were running were left to finish.
C16_RunningStepsRecorded ==
    (pc # None /\ config.fail_fast /\ ProcessedFailure
               /\ pc \in {"summary", "returned", "raised"}) =>
       \A f \in DOMAIN futures :
          /\ futures[f].state \in {"FINISHED", "CANCELLED"}
          /\ futures[f].name \in DOMAIN results
          /\ futures[f].state = "FINISHED" =>
                results[futures[f].name] = futures[f].outcome

\* C16 for the runs in which the child processes are not killed: once the
\* failure of a step has been processed no further step is submitted, a
\* running step is never cancelled, and at the end the result recorded for
\* every finished step is what its body did.
C16_FailFastStopsSubmittingUnlessKilled ==
    /\ [][config.fail_fast =>
            /\ ProcessedFailure => Len(futures') = Len(futures)
            /\ \A f \in DOMAIN futures :
                  futures[f].state = "RUNNING" =>
                     futures'[f].state \in {"RUNNING", "FINISHED"}
         ]_vars
    /\ []((config.fail_fast /\ ~killed /\ pc \in {"summary", "returned", "raised"}) =>
             \A f \in DOMAIN futures :
                /\ futures[f].state \in {"FINISHED", "CANCELLED"}
                /\ futures[f].name \in DOMAIN results
                /\ futures[f].state = "FINISHED" =>
                      results[futures[f].name] = futures[f].outcome)

\* C16 witness: fail_fast is set and _execute has ended after the failure of
\* a step; a step submitted after the failed one has returned and has its
\* result recorded, and another step was never submitted.
C16_Witness ==
    /\ config.fail_fast /\ ~killed /\ should_stop
    /\ ProcessedFailure
    /\ pc = "summary"
    /\ \E f \in DOMAIN futures :
          /\ futures[f].outcome = "None"
          /\ results[futures[f].name] = "None"
          /\ \E e \in DOMAIN futures : e < f /\ futures[e].outcome = "Exception"
    /\ DOMAIN graph \ Submitted # {}

\* C17: Pipeline.execute raises FailedPipelineException if and only if at
\* least one step ended failed, blocked or cancelled in the summary; with no
\* such step it returns normally.
C17_RaisesIffAJobDidNotSucceed ==
    pc \in {"returned", "raised"} =>
       ((pc = "raised" /\ raised = "FailedPipelineException")
           <=> (summary.failed # <<>> \/ summary.blocked # <<>> \/ summary.cancelled # <<>>))

\* C17 for the runs in which a job failed: the exception is raised exactly then.
C17_RaisesIffAJobFailed ==
    pc \in {"returned", "raised"} =>
       ((pc = "raised" /\ raised = "FailedPipelineException") <=> summary.failed # <<>>)

\* The steps each registered step requires; a name that is not registered
\* requires nothing.
RegisteredRequires ==
    [name \in Names |->
        IF name \in DOMAIN registered THEN SeqToSet(registered[name].requires) ELSE {}]

\* The keys each key of the returned graph requires.
BuiltRequires == [key \in DOMAIN built |-> SeqToSet(built[key]) \cap DOMAIN built]

\* The steps given: the `steps` argument, or the steps that run by default.
Requested ==
    IF request.steps = NoList
    THEN {name \in DOMAIN registered : registered[name].run_by_default}
    ELSE SeqToSet(request.steps)

\* S and, recursively, the members of the step groups in it.
WithGroupMembers(S) ==
    Closure([name \in Names |->
                IF name \in DOMAIN registered /\ registered[name].group
                THEN SeqToSet(registered[name].requires) ELSE {}],
            S)

\* C18: for any two steps A and C that both remain in the graph _build_graph
\* returns with an except list, A transitively requires C in the result
\* whenever A transitively required C before filtering, whether the roots were
\* given or defaulted.
C18_ExceptPreservesOrdering ==
    (pc = "built" /\ request.except_steps # NoList /\ ~request.only_selected_steps) =>
        \A A, C \in DOMAIN built :
            C \in AllRequirements(RegisteredRequires, A) =>
                C \in AllRequirements(BuiltRequires, A)

\* C19: a step named in the except list, or a member of an excluded step
\* group, that was not itself given in `steps` is neither a key of the graph
\* _build_graph returns nor inside any of its requirement lists.
C19_ExcludedStepsAbsent ==
    (pc = "built" /\ request.except_steps # NoList) =>
        \A s \in WithGroupMembers(SeqToSet(request.except_steps)) :
            (request.steps = NoList \/ s \notin SeqToSet(request.steps)) =>
                /\ s \notin DOMAIN built
                /\ \A key \in DOMAIN built : s \notin SeqToSet(built[key])

\* C20: with only_selected_steps and no except list, _build_graph returns a
\* graph whose keys are exactly the steps given and, recursively, the members
\* of the step groups given, and every requirement in it is one of those keys.
C20_OnlySelectedKeys ==
    (pc # "build" /\ request.only_selected_steps /\ request.except_steps = NoList) =>
        /\ pc = "built"
        /\ DOMAIN built = WithGroupMembers(Requested)
        /\ \A key \in DOMAIN built : SeqToSet(built[key]) \subseteq DOMAIN built

\* C20 witness: a step group given with only_selected_steps has a member that
\* is a step group itself, whose member was not given; all three are keys of
\* the result and a requirement is listed in it.
C20_Witness ==
    /\ pc = "built" /\ request.only_selected_steps /\ request.except_steps = NoList
    /\ request.steps # NoList
    /\ \E a \in SeqToSet(request.steps), b, c \in DOMAIN built \ SeqToSet(request.steps) :
          /\ registered[a].group /\ b \in SeqToSet(registered[a].requires)
          /\ registered[b].group /\ c \in SeqToSet(registered[b].requires)
          /\ b # c
          /\ c \in SeqToSet(built[b])

\* C30: the cycle carried by the CyclicStepDependenciesException that Resolver
\* raises starts and ends with the same step, each element requires the next
\* one, and every element is on the cycle, whichever step the traversal
\* started from.
C30_CycleIsClosedPath ==
    (pc = "raised" /\ raised = "CyclicStepDependenciesException") =>
        /\ Len(cycle) >= 2
        /\ cycle[1] = cycle[Len(cycle)]
        /\ \A i \in 1..(Len(cycle) - 1) : cycle[i + 1] \in graph[cycle[i]]
        /\ \A i \in 1..Len(cycle) : cycle[1] \in AllRequirements(graph, cycle[i])

\* C30 for the elements as listed: each requires the next one, and the first
\* one is met again further on.
C30_CycleIsPathWithRepeat ==
    (pc = "raised" /\ raised = "CyclicStepDependenciesException") =>
        /\ Len(cycle) >= 2
        /\ \E i \in 2..Len(cycle) : cycle[i] = cycle[1]
        /\ \A i \in 1..(Len(cycle) - 1) : cycle[i + 1] \in graph[cycle[i]]

\* C21: for any two steps A and C kept by only_selected_steps (no except
\* list), A transitively requires C in the graph returned if and only if A
\* transitively required C before filtering.
C21_OnlyKeepsDependencies ==
    (pc = "built" /\ request.only_selected_steps /\ request.except_steps = NoList) =>
        \A A, C \in DOMAIN built :
            C \in AllRequirements(RegisteredRequires, A)
                <=> C \in AllRequirements(BuiltRequires, A)

\* C21 witness: a kept step required another kept step only through a step
\* that was removed, and requires it directly in the result.
C21_Witness ==
    /\ pc = "built" /\ request.only_selected_steps /\ request.except_steps = NoList
    /\ \E A, C \in DOMAIN built :
          /\ C \notin RegisteredRequires[A]
          /\ C \in SeqToSet(built[A])
          /\ \E B \in RegisteredRequires[A] \ DOMAIN built : C \in RegisteredRequires[B]

\* The roots of the graph: the steps given or, by default, the registered
\* steps that run by default and are not excluded.
Roots ==
    IF request.steps # NoList THEN SeqToSet(request.steps)
    ELSE {name \in DOMAIN registered : registered[name].run_by_default}
            \ (IF request.except_steps = NoList THEN {}
               ELSE WithGroupMembers(SeqToSet(request.except_steps)))

\* The names reachable from the roots through requires that are not registered.
UnknownReachable == Closure(RegisteredRequires, Roots) \ DOMAIN registered

\* The steps the except list excludes, the members of excluded groups included.
Excluded ==
    IF request.except_steps = NoList THEN {}
    ELSE WithGroupMembers(SeqToSet(request.except_steps))

\* C22: if a step reachable from the roots through requires is not registered,
\* the call of _build_graph raises UnknownStepsException, the exception lists
\* every such step, and no graph is returned.
C22_UnknownStepsAllListed ==
    [][(pc = "build" /\ pc' # "build" /\ UnknownReachable # {}) =>
          /\ pc' = "raised" /\ raised' = "UnknownStepsException"
          /\ SeqToSet(unknown') = UnknownReachable
          /\ built' = <<>>]_vars

\* C22 for the calls whose except list names registered steps and groups of
\* registered steps only.
C22_UnknownStepsAllListedExceptKnown ==
    [][(pc = "build" /\ pc' # "build" /\ UnknownReachable # {}
            /\ Excluded \subseteq DOMAIN registered) =>
          /\ pc' = "raised" /\ raised' = "UnknownStepsException"
          /\ SeqToSet(unknown') = UnknownReachable
          /\ built' = <<>>]_vars

\* C22 reached: two steps that are not registered are both listed.
C22_TwoUnknownListed ==
    /\ pc = "raised" /\ raised = "UnknownStepsException"
    /\ Cardinality(SeqToSet(unknown)) = 2

\* The exceptions dwas reports as a configuration error: BaseDwasException
\* with exit code 2.
ConfigurationErrors ==
    {"BaseDwasException", "UnknownStepsException", "CyclicStepDependenciesException"}

\* C24: when the except list names a step that is not registered, or a step
\* group with a member that is not registered, the run ends with a
\* configuration error and with no other exception.
C24_UnknownExceptIsConfigurationError ==
    (pc \in {"built", "raised"} /\ ~(Excluded \subseteq DOMAIN registered)) =>
        (pc = "raised" /\ raised \in ConfigurationErrors)

\* C24 for the names given on the command line themselves: dwas ends with a
\* BaseDwasException.
C24_UnknownExceptOnCommandLine ==
    [][(pc = "cli" /\ request.except_steps # NoList
            /\ ~(SeqToSet(request.except_steps) \subseteq DOMAIN registered)) =>
          (pc' = "raised" /\ raised' = "BaseDwasException")]_vars

\* The steps kept in the graph built require each other in a cycle.
KeptCycle ==
    HasCycle([key \in DOMAIN built |-> RegisteredRequires[key] \cap DOMAIN built])

\* C23: building the graph terminates for every combination of steps, except
\* list and only_selected_steps (the recursion never runs into the
\* interpreter's limit), and no execution order is handed out for steps that
\* require each other in a cycle: CyclicStepDependenciesException is raised.
C23_CyclesAlwaysReported ==
    /\ raised # "RecursionError"
    /\ pc = "ordered" => ~KeptCycle

\* C23 for cycles among the steps kept: no execution order is handed out.
C23_NoOrderForKeptCycle == pc = "ordered" => ~KeptCycle

\* The futures whose step is being executed by a worker.
Executing == {f \in DOMAIN futures : futures[f].state = "RUNNING"}

\* C25: at any instant during a pipeline run, the number of steps that are
\* being executed is at most n_jobs.
C25_AtMostNJobsExecuting ==
    pc # None => Cardinality(Executing) <= config.n_jobs

\* n_jobs steps are being executed while another step submitted waits.
C25_Witness ==
    /\ pc # None
    /\ Cardinality(Executing) = config.n_jobs
    /\ \E f \in DOMAIN futures : futures[f].state = "PENDING"

\* The steps whose body raised UnavailableInterpreterException.
MissingInterpreter ==
    {name \in DOMAIN results : results[name] = "UnavailableInterpreterException"}

\* _log_summary went through its lists.
Summarised == pc = "returned" \/ (pc = "raised" /\ raised # "KeyboardInterrupt")

\* C26: a step that raised UnavailableInterpreterException is, when
\* skip_missing_interpreters is set, reported as skipped and not as failed,
\* does not stop the run under fail_fast and does not make execute raise
\* FailedPipelineException; when the option is not set, it is reported as
\* failed and no step that requires it is ever submitted.
C26_MissingInterpreterSkipped ==
    pc # None =>
       /\ Summarised =>
             \A name \in MissingInterpreter :
                IF config.skip_missing_interpreters
                THEN name \in SeqToSet(summary.skipped) /\ name \notin SeqToSet(summary.failed)
                ELSE name \in SeqToSet(summary.failed) /\ name \notin SeqToSet(summary.skipped)
       /\ config.skip_missing_interpreters /\ should_stop /\ interrupts = 0 =>
             \E name \in DOMAIN results : results[name] = "Exception"
       /\ config.skip_missing_interpreters /\ raised = "FailedPipelineException" =>
             \E name \in DOMAIN results : results[name] = "Exception"
       /\ ~config.skip_missing_interpreters =>
             \A name \in MissingInterpreter :
                \A f \in DOMAIN futures : name \notin graph[futures[f].name]

\* With the option set and fail_fast, a step raised
\* UnavailableInterpreterException, a step that requires it ran afterwards,
\* and execute returned with the first one in the skipped list.
C26_Witness ==
    /\ pc = "returned"
    /\ config.skip_missing_interpreters
    /\ config.fail_fast
    /\ \E name \in MissingInterpreter :
          /\ name \in SeqToSet(summary.skipped)
          /\ \E dependent \in DOMAIN results :
                name \in graph[dependent] /\ results[dependent] = "None"
    /\ \A name \in DOMAIN graph : name \in DOMAIN results

\* The futures _execute took from running_futures after their step ended.
Popped ==
    {f \in DOMAIN futures :
        /\ futures[f].state = "FINISHED"
        /\ f \notin running_futures
        /\ ~(pc = "record" /\ f = Len(futures))}

\* C27: what a step's body raises never leaves the executor loop: it is
\* recorded as the result of the step, and the only exception execute raises
\* once the steps are being executed is FailedPipelineException.
C27_OnlyFailedPipelineException ==
    pc # None =>
       /\ \A f \in Popped : futures[f].name \in DOMAIN results
       /\ pc # "unwind"
       /\ pc = "raised" => raised = "FailedPipelineException"

\* C27 for what _run_step wraps: an Exception raised by a step's body is
\* recorded as the result of the step.
C27_ExceptionsAreRecorded ==
    pc # None =>
       \A f \in Popped :
          futures[f].outcome \in Outcomes =>
             /\ futures[f].name \in DOMAIN results
             /\ results[futures[f].name] = futures[f].outcome

\* The KeyboardInterrupt of a step reached the caller of execute.
C27_KeyboardInterruptRaised ==
    pc = "raised" /\ raised = "KeyboardInterrupt"

\* C28: the first SIGINT of a run only requests a stop and the child
\* processes are killed by a second one at the earliest; the previous handler
\* of SIGINT is back once execute returned or raised.
C28_TwoStageInterrupt ==
    pc # None =>
       /\ killed => interrupts >= 2
       /\ pc \in {"returned", "raised"} => handler = "previous"

\* C28 where the stop was not requested by fail_fast before: the kill then
\* takes two SIGINT; in every run the handler is restored and a kill follows
\* a stop.
C28_TwoStageUnlessStopped ==
    pc # None =>
       /\ killed /\ ~config.fail_fast => interrupts >= 2
       /\ killed => should_stop /\ interrupts >= 1
       /\ pc \in {"returned", "raised"} => handler = "previous"

\* The child processes were killed by the only SIGINT of the run.
C28_KilledByFirstInterrupt ==
    pc # None /\ killed /\ interrupts = 1

\* The stream of the terminal a write to a stream of a PipePlexer belongs to.
Target(stream) == IF stream = "stdout" THEN "sys.stdout" ELSE "sys.stderr"

\* C29: when n_jobs is not 1, what is on sys.stdout and sys.stderr was
\* written by steps that have completed, and the writes of each such step
\* are there once, as one block, in the order the step made them and each
\* on the stream it was made to.
C29_OutputInOneBlockAfterCompletion ==
    pc # None /\ config.n_jobs # 1 =>
       /\ \A i \in DOMAIN terminal : \E f \in Popped : futures[f].name = terminal[i].name
       /\ \A i, j \in DOMAIN terminal :
             terminal[i].name = terminal[j].name /\ terminal[i].n = terminal[j].n => i = j
       /\ \A f \in Popped :
             LET buffer == futures[f].buffer
             IN  /\ Len(buffer) = futures[f].written
                 /\ \A i \in DOMAIN buffer : buffer[i].n = i
                 /\ \E k \in 0..(Len(terminal) - Len(buffer)) :
                       \A i \in DOMAIN buffer :
                          terminal[k + i] = [target |-> Target(buffer[i].stream),
                                             name   |-> futures[f].name,
                                             n      |-> i]

\* A step wrote to both streams and completed while another step, which has
\* written too, was still running: the terminal holds the block of the first.
C29_Witness ==
    /\ pc # None
    /\ config.n_jobs # 1
    /\ \E f \in Popped, g \in Executing :
          /\ futures[g].buffer # <<>>
          /\ Len(futures[f].buffer) >= 2
          /\ futures[f].buffer[1].stream # futures[f].buffer[2].stream
          /\ Len(terminal) = Len(futures[f].buffer)

\* The ready lists a completion call of a running step can leave, one for
\* each order in which the set of its dependents can be iterated.
ReadyAfterSuccess(step) == {c.sch.ready : c \in SchedMarkSuccess(scheduler, step, now)}
ReadyAfterSkipped(step) ==
    UNION {{c.sch.ready : c \in SchedMarkSkipped(scheduler, step, exc, now)} : exc \in Exceptions}

\* C31: the same operation on the same Scheduler always leaves the same ready
\* list, in the same order: mark_success and mark_skipped of a running step
\* have one possible ready list, whatever the number of dependents they
\* make ready.
C31_DispatchOrderDeterministic ==
    pc = "scheduler" /\ raised = None =>
       \A step \in DOMAIN scheduler.running :
          /\ Cardinality(ReadyAfterSuccess(step)) = 1
          /\ Cardinality(ReadyAfterSkipped(step)) = 1

\* C31 without the order: the steps that are ready after the operation are
\* the same in every run.
C31_ReadySetDeterministic ==
    pc = "scheduler" /\ raised = None =>
       \A step \in DOMAIN scheduler.running :
          /\ Cardinality({SeqToSet(ready_list) : ready_list \in ReadyAfterSuccess(step)}) = 1
          /\ Cardinality({SeqToSet(ready_list) : ready_list \in ReadyAfterSkipped(step)}) = 1

\* The steps that are in one of the five collections of completed steps.
Completed5 ==
    scheduler.success \cup scheduler.failed \cup scheduler.skipped
        \cup scheduler.blocked \cup scheduler.cancelled

\* C32: a step has an entry in results exactly when it is in success, failed,
\* skipped, blocked or cancelled (a step in waiting, ready or running has
\* none), and a BLOCKED or CANCELLED result has a zero duration and no error.
C32_OneResultPerCompletedStep ==
    pc = "scheduler" =>
       /\ DOMAIN scheduler.results = Completed5
       /\ \A step \in scheduler.waiting \cup SeqToSet(scheduler.ready)
                        \cup DOMAIN scheduler.running :
             step \notin DOMAIN scheduler.results
       /\ \A step \in DOMAIN scheduler.results :
             scheduler.results[step].result \in {BLOCKED, CANCELLED} =>
                /\ scheduler.results[step].duration = TimedeltaZero
                /\ scheduler.results[step].exc = None

\* A step failed and blocked another, the scheduler was stopped and
\* cancelled a third, and a fourth is still running.
C32_Witness ==
    /\ pc = "scheduler" /\ raised = None
    /\ scheduler.blocked # {} /\ scheduler.cancelled # {}
    /\ scheduler.failed # {} /\ DOMAIN scheduler.running # {}

\* C33: mark_failed leaves a dependent that is cancelled where it is: it
\* stays in cancelled and is not added to blocked.
C33_CancelledDependentStaysCancelled ==
    pc = "scheduler" /\ raised = None =>
       \A step \in DOMAIN scheduler.running, exc \in Exceptions :
          \A c \in SchedMarkFailed(scheduler, step, exc, now) :
             /\ scheduler.cancelled \subseteq c.sch.cancelled
             /\ scheduler.cancelled \cap c.sch.blocked = {}

\* C38: the JobResult stored for a step is the one of the collection the
\* step is in.
C38_ResultMatchesCollection ==
    pc = "scheduler" =>
       \A step \in DOMAIN scheduler.results :
          LET result == scheduler.results[step].result
          IN  /\ step \in scheduler.success => result = SUCCESS
              /\ step \in scheduler.failed => result = FAILED
              /\ step \in scheduler.skipped => result = SKIPPED
              /\ step \in scheduler.blocked => result = BLOCKED
              /\ step \in scheduler.cancelled => result = CANCELLED

\* C38 for the collections other than skipped.
C38_ResultMatchesCollectionUnlessSkipped ==
    pc = "scheduler" =>
       \A step \in DOMAIN scheduler.results :
          LET result == scheduler.results[step].result
          IN  /\ step \in scheduler.success => result = SUCCESS
              /\ step \in scheduler.failed => result = FAILED
              /\ step \in scheduler.blocked => result = BLOCKED
              /\ step \in scheduler.cancelled => result = CANCELLED

\* The seconds elapsed on the monotonic clock since mark_started of a
\* running step.
Elapsed(step) == now - scheduler.running[step]

\* C39: the duration mark_success, mark_failed and mark_skipped record for a
\* running step is the time elapsed since its mark_started, in seconds for
\* the three of them.
C39_DurationIsElapsedSeconds ==
    pc = "scheduler" /\ raised = None =>
       \A step \in DOMAIN scheduler.running :
          /\ \A c \in SchedMarkSuccess(scheduler, step, now) :
                c.sch.results[step].duration = Elapsed(step)
          /\ \A exc \in Exceptions :
                /\ \A c \in SchedMarkFailed(scheduler, step, exc, now) :
                      c.sch.results[step].duration = Elapsed(step)
                /\ \A c \in SchedMarkSkipped(scheduler, step, exc, now) :
                      c.sch.results[step].duration = Elapsed(step)

\* C39 for mark_success and mark_failed.
C39_DurationOfSuccessAndFailure ==
    pc = "scheduler" /\ raised = None =>
       \A step \in DOMAIN scheduler.running :
          /\ \A c \in SchedMarkSuccess(scheduler, step, now) :
                c.sch.results[step].duration = Elapsed(step)
          /\ \A exc \in Exceptions :
                \A c \in SchedMarkFailed(scheduler, step, exc, now) :
                   c.sch.results[step].duration = Elapsed(step)

\* C36: the first component of the weight of every step is the number of its
\* transitive dependents: not zero for a step that has a dependent.
C36_WeightCountsTransitiveDependents ==
    pc = "built" =>
       \A step \in DOMAIN resolver.weights :
          /\ resolver.weights[step][1]
                = Cardinality(TransitiveDependents(resolver.dependencies_graph, step))
          /\ resolver.dependents_graph[step] # {} => resolver.weights[step][1] # 0

\* What the weights do hold: zero, the number of direct dependents, the name.
C36_WeightIsZeroDirectDependentsName ==
    pc = "built" =>
       \A step \in DOMAIN resolver.weights :
          resolver.weights[step]
             = <<0, Cardinality(resolver.dependents_graph[step]), step>>

\* C34: in the summary a step is reported blocked exactly when one of its
\* direct requirements is reported failed or blocked, and a step that was
\* never started without such a requirement is reported cancelled.
C34_BlockedIffRequirementFailedOrBlocked ==
    pc # None /\ Summarised =>
       LET failed_jobs == SeqToSet(summary.failed)
           blocked_jobs == SeqToSet(summary.blocked)
           cancelled_jobs == SeqToSet(summary.cancelled)
       IN  \A name \in DOMAIN graph :
              /\ name \in blocked_jobs
                    <=> (name \notin DOMAIN results
                         /\ graph[name] \cap (failed_jobs \cup blocked_jobs) # {})
              /\ (name \notin DOMAIN results
                  /\ graph[name] \cap (failed_jobs \cup blocked_jobs) = {})
                    => name \in cancelled_jobs

\* C34 for the runs that were not stopped: a step is reported blocked exactly
\* when one of its direct requirements is reported failed or blocked, and no
\* step is reported cancelled.
C34_BlockedIffRequirementFailedUnlessStopped ==
    pc # None /\ Summarised /\ ~should_stop =>
       LET failed_jobs == SeqToSet(summary.failed)
           blocked_jobs == SeqToSet(summary.blocked)
       IN  /\ summary.cancelled = <<>>
           /\ \A name \in DOMAIN graph :
                 name \in blocked_jobs
                    <=> (name \notin DOMAIN results
                         /\ graph[name] \cap (failed_jobs \cup blocked_jobs) # {})

\* The total time of the slowest chain that starts at a step: its own time
\* plus the largest total time among its requirements.
RECURSIVE ChainTime(_)
ChainTime(step) ==
    LET requirements == SeqToSet(graph[step])
        own == chain_results[step][2]
    IN  IF requirements = {} THEN own
        ELSE own + (CHOOSE t \in {ChainTime(d) : d \in requirements} :
                       \A d \in requirements : ChainTime(d) <= t)

\* The requirement the chain of a step goes on with: the first one listed
\* among those with the largest total time.
SlowestRequirement(step) ==
    LET requirements == graph[step]
        i == CHOOSE j \in DOMAIN requirements :
                /\ \A k \in DOMAIN requirements :
                      ChainTime(requirements[k]) <= ChainTime(requirements[j])
                /\ \A k \in 1..(j - 1) :
                      ChainTime(requirements[k]) < ChainTime(requirements[j])
    IN  requirements[i]

RECURSIVE Chain(_)
Chain(step) ==
    IF graph[step] = <<>> THEN <<step>>
    ELSE <<step>> \o Chain(SlowestRequirement(step))

\* C35: _compute_slowest_chains returns, for every step that has a result
\* and for no other, the chain that starts at the step and goes on, at each
\* step, with the requirement whose chain takes longest (the first listed of
\* them), and the sum of the times of the steps of that chain.
C35_SlowestChains ==
    pc \in {"chains", "chains_returned", "chains_raised"} =>
       /\ pc # "chains" =>
             /\ DOMAIN total_time_per_step = DOMAIN chain_results
             /\ \A step \in DOMAIN chain_results :
                   total_time_per_step[step] = <<Chain(step), ChainTime(step)>>
       /\ raised = None

\* A step with two requirements whose chains take as long was given the
\* chain of the first listed, which is not the one with the smaller name.
C35_Witness ==
    /\ pc = "chains_returned"
    /\ \E step \in DOMAIN total_time_per_step :
          /\ Len(graph[step]) >= 2
          /\ ChainTime(graph[step][1]) = ChainTime(graph[step][2])
          /\ ChainTime(graph[step][1]) > 0
          /\ graph[step][1] > graph[step][2]
          /\ total_time_per_step[step][1][2] = graph[step][1]

\* C37: no child process is started after kill() began signalling the
\* registered processes.
C37_NoChildStartedAfterKill ==
    pc \in {"run", "kill_flagged", "kill_waiting", "kill_returned"} =>
       \A w \in Workers : workers[w].child # "none" => ~workers[w].after_kill

\* C37, the part that holds: a call of run() that begins after kill() was
\* called raises KeyboardInterrupt and starts no child, and while kill()
\* waits every registered process has received SIGTERM or has exited.
C37_RunAfterKillRaises ==
    pc \in {"run", "kill_flagged", "kill_waiting", "kill_returned"} =>
       /\ \A w \in Workers : workers[w].pc = "raised" =>
             was_killed /\ workers[w].child = "none"
       /\ pc = "kill_waiting" =>
             \A w \in processes : workers[w].child \in {"terminated", "exited"}

\* The scheduling loop of _execute has been left, by the end of `while`, by
\* the break or by an exception.
LoopExited == pc \in {"summary", "unwind", "returned", "raised"}

\* C40: when the scheduling loop exits in a run with steps that fail or are
\* skipped, with or without fail_fast, and with at most one SIGINT to request
\* a stop, no submitted step is still running or left without a recorded
\* result.
C40_NoStepLeftWhenLoopExits ==
    LoopExited /\ interrupts <= 1 =>
       \A f \in DOMAIN futures :
          /\ futures[f].state \in {"FINISHED", "CANCELLED"}
          /\ futures[f].name \in DOMAIN results

\* C40 for the runs in which the child processes are not killed: the loop is
\* left by its `while` or its break only, and then every submitted step has
\* ended or was cancelled, is out of running_futures and has its result.
C40_NoStepLeftUnlessKilled ==
    LoopExited /\ ~killed =>
       /\ pc # "unwind"
       /\ running_futures = {}
       /\ \A f \in DOMAIN futures :
             /\ futures[f].state \in {"FINISHED", "CANCELLED"}
             /\ futures[f].name \in DOMAIN results

\* C40, termination: while the main thread and the workers keep running and
\* every step's body ends, the scheduling loop is left.
C40_LoopTerminates == <>LoopExited

====
